---- MODULE Spec2Model ----
(***************************************************************************)
(* State-machine model of the arena-graph rendering engine:                *)
(*   GraphData      (src/graph/GraphData.js)                               *)
(*   NodeRenderer   (src/graph/NodeRenderer.js)                            *)
(*   EdgeRenderer   (src/graph/EdgeRenderer.js)                            *)
(*   Raycaster      (src/interaction/Raycaster.js, shaders/picking.vert)   *)
(*   LayoutEngine   (src/layout/LayoutEngine.js)                           *)
(* Node ids are modelled as small naturals, block indices are 0-based as   *)
(* in the source, TLA+ sequences are 1-based (blocks[i+1] is block i).     *)
(***************************************************************************)
EXTENDS Integers, Sequences, FiniteSets, TLC

VARIABLES
  rawSections,                 \* the sections the raw document has
  rawNodes, rawEdges,          \* raw.elements.nodes and raw.elements.edges
  loadError,                   \* what new GraphData(raw) threw ("none": it returned)
  channels, blocks,            \* GraphData.channels / GraphData.blocks (ids, in list order)
  blockIndexMap, channelIndexMap,
  blockToChannelsMap,          \* block id -> list of channel ids
  adjacency,                   \* node id -> list of neighbour ids
  edges,                       \* GraphData.edges
  channelColorMap,             \* channel id -> colour
  blockColor,                  \* block id -> colour (block.color)
  centerChannelId,             \* GraphData.centerChannelId (0: the empty string)
  blockMeta,                   \* class, autoTags and ts of each block, minDate and maxDate
  appState,                    \* AppState._state
  featureState,                \* the fields the features keep outside AppState
  spiralCalls,                 \* results of the latest SpiralLayout.compute calls, newest first
  lastLayout,                  \* what the latest compute call of a layout class returned
  pathQuery,                   \* last bfsPath call: [start, end, path, iters] or NoQuery
  \* NodeRenderer
  colorAttr, opacityAttr, scaleAttr, pickIdAttr,      \* per-instance attribute arrays
  originalColors, originalOpacities, originalScales,  \* copies saved by the constructor
  positions,                   \* block index -> position (also the instance matrices)
  channelPos,                  \* channel index -> channelMeshes[i].position
  needsUpdate,                 \* needsUpdate flag of each buffer attribute
  gpu,                         \* what the renderer last uploaded, i.e. what a frame shows
  \* EdgeRenderer
  positionArray,               \* edge index -> its two endpoints
  colorArray,                  \* edge index (from 1) -> the colours of its two vertices
  \* LayoutEngine and the browser's animation-frame queue and clock
  animating, animCallback,     \* _animating, _animCallback (0 = null)
  rafPending,                  \* callbacks registered with requestAnimationFrame
  nextRafId,
  animCount,                   \* number of animateTo calls so far
  onCompleteLog,               \* animations whose onComplete was invoked, in order
  now, lastFrameTime,          \* performance.now(), time of the last delivered frame
  \* Raycaster
  pixelBuffer, pickResult,
  pickTargetOk,                \* the offscreen render target can be rendered to and read
  pickedId,                    \* the pick id stored for the instance under the cursor (0: none)
  \* history variables used to state the properties
  lastStep,                    \* the last executed animation step
  pendingWrite,                \* per buffer: the latest write no commit has followed
  lastOps,                     \* the two most recent NodeRenderer / EdgeRenderer calls
  ops,                         \* number of buffer operations performed
  trace,                       \* what the latest event handler dispatched and wrote
  raised                       \* the exceptions renderer calls have raised so far

dataVars == <<rawSections, loadError, rawNodes, rawEdges, channels, blocks, blockIndexMap, channelIndexMap,
              blockToChannelsMap, adjacency, edges, channelColorMap, blockColor, centerChannelId,
              blockMeta>>
\* the graph and the spiral layouts computed from it
appVars == <<appState, featureState, trace>>
graphVars == <<dataVars, spiralCalls, lastLayout, appVars>>
attrVars == <<colorAttr, opacityAttr, scaleAttr>>
origVars == <<originalColors, originalOpacities, originalScales, pickIdAttr>>
posVars == <<positions, channelPos>>
gpuVars == <<needsUpdate, gpu>>
edgeVars == <<positionArray, colorArray>>
layoutVars == <<animating, animCallback, rafPending, nextRafId, animCount, onCompleteLog>>
clockVars == <<now, lastFrameTime>>
pickVars == <<pixelBuffer, pickResult, pickedId, pickTargetOk>>
histVars == <<lastStep, pendingWrite, lastOps, ops>>

vars == <<graphVars, raised, pathQuery, attrVars, origVars, posVars, gpuVars, edgeVars,
          layoutVars, clockVars, pickVars, histVars>>

(***************************************************************************)
(* Bounds                                                                  *)
(***************************************************************************)
NumIds == 4
MaxNodes == 3
MaxEdges == 3

Ids == 1..NumIds

Range(s) == {s[k] : k \in 1..Len(s)}
Front(s) == SubSeq(s, 1, Len(s) - 1)
Last(s) == s[Len(s)]
Includes(s, x) == \E k \in 1..Len(s) : s[k] = x

(***************************************************************************)
(* GraphData constructor                                                   *)
(***************************************************************************)
IsChannel(n) == n.type = "channel"
IdOf(n) == n.id

RECURSIVE MapIds(_)
MapIds(ns) == IF ns = <<>> THEN <<>> ELSE Append(MapIds(Front(ns)), IdOf(Last(ns)))

\* for (const n of rawNodes) { if (d.type === 'channel') channels.push(d) else blocks.push(d) }
SplitChannels(ns) == MapIds(SelectSeq(ns, IsChannel))
IsBlockNode(n) == ~IsChannel(n)
SplitNothing(ns) == MapIds(ns)
SplitBlocks(ns) == MapIds(SelectSeq(ns, IsBlockNode))

\* list.forEach((b, i) => { map[b.id] = i })   (a later entry overwrites an earlier one)
IndexMapOf(list) ==
  [id \in Range(list) |-> CHOOSE i \in 0..(Len(list) - 1) :
       list[i + 1] = id /\ \A j \in 0..(Len(list) - 1) : list[j + 1] = id => j <= i]

\* obj[key] || []
Lookup(map, key) == IF key \in DOMAIN map THEN map[key] ELSE <<>>

\* if (!map[key]) map[key] = []
Ensure(map, key) == IF key \in DOMAIN map THEN map ELSE [k \in DOMAIN map \cup {key} |->
                                                          IF k = key THEN <<>> ELSE map[k]]
Push(map, key, x) == [map EXCEPT ![key] = Append(@, x)]

\* adjacency[chId].push(blId); adjacency[blId].push(chId)
AddEdgeDirected(adj, e) ==
  Push(Ensure(Ensure(adj, e.source), e.target), e.source, e.target)
AddEdge(adj, e) ==
  Push(Push(Ensure(Ensure(adj, e.source), e.target), e.source, e.target),
       e.target, e.source)

RECURSIVE BuildAdjacency(_)
BuildAdjacency(es) ==
  IF es = <<>> THEN <<>> ELSE AddEdge(BuildAdjacency(Front(es)), Last(es))

\* if (!map[tgt]) map[tgt] = []; if (!map[tgt].includes(src)) map[tgt].push(src)
AddMembership(m, e) ==
  LET m1 == Ensure(m, e.target)
  IN IF Includes(m1[e.target], e.source) THEN m1 ELSE Push(m1, e.target, e.source)

RECURSIVE BuildMembership(_)
BuildMembership(es) ==
  IF es = <<>> THEN <<>> ELSE AddMembership(BuildMembership(Front(es)), Last(es))

\* if (!blockChannelMap[tgt]) blockChannelMap[tgt] = src
AddPrimary(m, e) ==
  IF e.target \in DOMAIN m THEN m
  ELSE [k \in DOMAIN m \cup {e.target} |-> IF k = e.target THEN e.source ELSE m[k]]

RECURSIVE BuildPrimary(_)
BuildPrimary(es) ==
  IF es = <<>> THEN <<>> ELSE AddPrimary(BuildPrimary(Front(es)), Last(es))

\* CHANNEL_PALETTE as RGB triples (0..255 per component), '#666666', and undefined
CHANNEL_PALETTE ==
  << <<204, 255, 0>>, <<0, 243, 255>>, <<255, 51, 102>>, <<255, 153, 0>>,
     <<0, 255, 136>>, <<255, 0, 255>>, <<255, 255, 0>>, <<51, 204, 255>>,
     <<255, 102, 51>>, <<102, 255, 51>>, <<204, 102, 255>>, <<0, 255, 204>> >>
DefaultColor == <<102, 102, 102>>
Undefined == <<>>

\* channels.forEach((ch, i) => channelColorMap[ch.id] = CHANNEL_PALETTE[i % CHANNEL_PALETTE.length])
\* (none of the modelled ids is a key of RGB_COLORS)
ChannelColors(chs) ==
  [id \in Range(chs) |-> CHANNEL_PALETTE[(IndexMapOf(chs)[id] % Len(CHANNEL_PALETTE)) + 1]]

\* b.color = parentCh ? channelColorMap[parentCh] : '#666666'
BlockColors(bls, chs, es) ==
  [b \in Range(bls) |->
     IF b \in DOMAIN BuildPrimary(es)
       THEN IF BuildPrimary(es)[b] \in Range(chs)
              THEN ChannelColors(chs)[BuildPrimary(es)[b]]
              ELSE Undefined
       ELSE DefaultColor]

\* the state new GraphData(raw) leaves behind
Sections == {"meta", "elements", "nodes", "edges"}

\* raw.meta.searchIndex, raw.elements.nodes, for (const n of rawNodes),
\* for (const e of rawEdges): reading a property of undefined and iterating
\* undefined both throw a TypeError
ConstructorThrows(present) ==
  IF Sections \subseteq present THEN "none" ELSE "TypeError"

\* _detectCenterChannel without a configured slug: the first channel with the
\* largest blockCount, the first channel when no count is positive, '' when
\* there is no channel
NoCenter == 0
detectCenterChannel(chs, blockCount) ==
  IF chs = <<>> THEN NoCenter
  ELSE chs[CHOOSE i \in 1..Len(chs) :
             \A j \in 1..Len(chs) :
               /\ blockCount[chs[j]] <= blockCount[chs[i]]
               /\ j < i => blockCount[chs[j]] < blockCount[chs[i]]]

\* nodes without a blockCount or size field: ch.blockCount || ch.size || 0
NoCounts(ns) == [c \in Range(SplitChannels(ns)) |-> 0]

\* nodes without class, autoTags or ts fields, and no meta.sortedTimestamps
NoClass == "undefined"
NoMeta(ns) == [class |-> [b \in Range(SplitBlocks(ns)) |-> NoClass],
               autoTags |-> [b \in Range(SplitBlocks(ns)) |-> {}],
               ts |-> [b \in Range(SplitBlocks(ns)) |-> 0],
               minDate |-> 0, maxDate |-> 0]

LoadedFull(ns, es, blockCount, meta) ==
  /\ rawSections = Sections
  /\ blockMeta = meta
  /\ centerChannelId = detectCenterChannel(SplitChannels(ns), blockCount)
  /\ loadError = ConstructorThrows(Sections)
  /\ channelColorMap = ChannelColors(SplitChannels(ns))
  /\ blockColor = BlockColors(SplitBlocks(ns), SplitChannels(ns), es)
  /\ rawNodes = ns
  /\ rawEdges = es
  /\ channels = SplitChannels(ns)
  /\ blocks = SplitBlocks(ns)
  /\ blockIndexMap = IndexMapOf(SplitBlocks(ns))
  /\ channelIndexMap = IndexMapOf(SplitChannels(ns))
  /\ blockToChannelsMap = BuildMembership(es)
  /\ adjacency = BuildAdjacency(es)
  /\ edges = es

LoadedWith(ns, es, blockCount) == LoadedFull(ns, es, blockCount, NoMeta(ns))
Loaded(ns, es) == LoadedWith(ns, es, NoCounts(ns))

\* the constructor threw: no GraphData object exists
LoadFailed(present) ==
  /\ rawSections = present
  /\ centerChannelId = NoCenter
  /\ blockMeta = NoMeta(<<>>)
  /\ loadError = ConstructorThrows(present)
  /\ rawNodes = <<>>
  /\ rawEdges = <<>>
  /\ channels = <<>>
  /\ blocks = <<>>
  /\ blockIndexMap = <<>>
  /\ channelIndexMap = <<>>
  /\ blockToChannelsMap = <<>>
  /\ adjacency = <<>>
  /\ edges = <<>>
  /\ channelColorMap = <<>>
  /\ blockColor = <<>>

(***************************************************************************)
(* GraphData.bfsPath                                                       *)
(***************************************************************************)
NoQuery == [start |-> 0, end |-> 0, path |-> <<>>, iters |-> 0]

\* queue.push(p)
QueuePush(queue, p) == Append(queue, p)

\* for (const n of neighbors) { if (n === endId) return [...path, n];
\*                              if (!visited.has(n)) { visited.add(n); queue.push([...path, n]) } }
RECURSIVE ScanNeighbors(_, _, _, _, _, _)
ScanNeighbors(neighbors, k, path, endId, queue, visited) ==
  IF k > Len(neighbors)
    THEN [found |-> FALSE, path |-> <<>>, queue |-> queue, visited |-> visited]
    ELSE LET n == neighbors[k]
         IN IF n = endId
              THEN [found |-> TRUE, path |-> Append(path, n), queue |-> queue,
                    visited |-> visited]
              ELSE IF n \notin visited
                THEN ScanNeighbors(neighbors, k + 1, path, endId,
                                   QueuePush(queue, Append(path, n)), visited \cup {n})
                ELSE ScanNeighbors(neighbors, k + 1, path, endId, queue, visited)

\* while (queue.length > 0) { const path = queue.shift(); ... } return []
RECURSIVE BfsLoop(_, _, _, _, _)
BfsLoop(adj, endId, queue, visited, iters) ==
  IF queue = <<>>
    THEN [path |-> <<>>, iters |-> iters]
    ELSE LET path == Head(queue)
             current == Last(path)
             r == ScanNeighbors(Lookup(adj, current), 1, path, endId, Tail(queue), visited)
         IN IF r.found
              THEN [path |-> r.path, iters |-> iters + 1]
              ELSE BfsLoop(adj, endId, r.queue, r.visited, iters + 1)

bfsPathNoBaseCase(adj, startId, endId) ==
  BfsLoop(adj, endId, <<<<startId>>>>, {startId}, 0)
bfsPath(adj, startId, endId) ==
  IF startId = endId
    THEN [path |-> <<startId>>, iters |-> 0]
    ELSE BfsLoop(adj, endId, <<<<startId>>>>, {startId}, 0)

BfsQuery(s, e) ==
  /\ loadError = "none"
  /\ LET r == bfsPath(adjacency, s, e)
     IN pathQuery' = [start |-> s, end |-> e, path |-> r.path, iters |-> r.iters]
  /\ UNCHANGED <<graphVars, raised, attrVars, origVars, posVars, gpuVars, edgeVars,
                 layoutVars, clockVars, pickVars, histVars>>

(***************************************************************************)
(* NodeRenderer.  Opacities are in hundredths, scales in tenths, colour    *)
(* components in 1/255, positions are integer triples.                     *)
(***************************************************************************)
FADED_OPACITY == 6
FadedScale == 5
CrossOpacity == 80
SingleOpacity == 50
CrossScale == 16
SingleScale == 10
HOVER_SCALE == 18
FullOpacity == 100
SIMILAR_COLOR == <<204, 102, 255>>

Origin == <<0, 0, 0>>
BlockIdx == 0..(Len(blocks) - 1)
ChanIdx == 0..(Len(channels) - 1)
Kinds == {"color", "opacity", "scale", "matrix"}
NoWrite == [active |-> FALSE, idx |-> 0, old |-> <<>>, clean |-> FALSE, shown |-> FALSE]

\* the write performed by a setter on buffer k at index i, remembered until a commit
NoteWrite(k, i) ==
  [pendingWrite EXCEPT ![k] =
     [active |-> TRUE, idx |-> i, old |-> gpu[k][i], clean |-> ~needsUpdate[k],
      shown |-> FALSE]]

\* new NodeRenderer(scene, graphData): hexToRgb(block.color) throws a TypeError when a
\* block's colour is undefined, and then no renderer, layout engine or picking exists
IsCrossLinked(b) == Len(Lookup(blockToChannelsMap, b)) > 1
RendererBuilt ==
  /\ loadError = "none"
  /\ \A b \in Range(blocks) : blockColor[b] # Undefined
Built(buffer) == IF RendererBuilt THEN buffer ELSE <<>>
NodeInit ==
  /\ colorAttr = Built([i \in BlockIdx |-> blockColor[blocks[i + 1]]])
  /\ opacityAttr = Built([i \in BlockIdx |->
                      IF IsCrossLinked(blocks[i + 1]) THEN CrossOpacity ELSE SingleOpacity])
  /\ scaleAttr = Built([i \in BlockIdx |->
                    IF IsCrossLinked(blocks[i + 1]) THEN CrossScale ELSE SingleScale])
  /\ pickIdAttr = Built([i \in BlockIdx |-> i + 1])
  /\ originalColors = colorAttr
  /\ originalOpacities = opacityAttr
  /\ originalScales = scaleAttr
  /\ positions = Built([i \in BlockIdx |-> Origin])
  /\ channelPos = Built([i \in ChanIdx |-> Origin])
  /\ needsUpdate = [k \in Kinds |-> TRUE]
  /\ gpu = [color |-> colorAttr, opacity |-> opacityAttr, scale |-> scaleAttr,
            matrix |-> positions]
  /\ pendingWrite = [k \in Kinds |-> NoWrite]
  /\ lastOps = <<[op |-> "none", arg |-> {}], [op |-> "none", arg |-> {}]>>

restOfNode == <<graphVars, raised, pathQuery, origVars, edgeVars, layoutVars, clockVars,
                pickVars, lastStep>>

\* the two most recent renderer calls.  The setters store through a Float32Array
\* (positions and matrices included), where a store at an index past the end or
\* below 0 does nothing and does not throw
Called(name, arg) == lastOps' = <<lastOps[2], [op |-> name, arg |-> arg]>>
setBlockPositionAndFlag(index, p) ==
  /\ RendererBuilt
  /\ positions' = IF index \in BlockIdx THEN [positions EXCEPT ![index] = p] ELSE positions
  /\ needsUpdate' = [needsUpdate EXCEPT !["matrix"] = TRUE]
  /\ pendingWrite' = IF index \in BlockIdx THEN NoteWrite("matrix", index) ELSE pendingWrite
  /\ Called("setBlockPosition", {index})
  /\ UNCHANGED <<restOfNode, attrVars, channelPos, gpu>>
setBlockPosition(index, p) ==
  /\ RendererBuilt
  /\ positions' = IF index \in BlockIdx THEN [positions EXCEPT ![index] = p] ELSE positions
  /\ pendingWrite' = IF index \in BlockIdx THEN NoteWrite("matrix", index) ELSE pendingWrite
  /\ Called("setBlockPosition", {index})
  /\ UNCHANGED <<restOfNode, attrVars, channelPos, gpuVars>>

\* getBlockPosition(index): reads the positions cache; past the end the three
\* reads give undefined and nothing is thrown
getBlockPosition(index) ==
  /\ RendererBuilt
  /\ Called("getBlockPosition", {index})
  /\ UNCHANGED <<restOfNode, attrVars, posVars, gpuVars, pendingWrite>>

\* setChannelPosition(index, x, y, z): this.channelMeshes[index].position.set(x, y, z);
\* channelMeshes is a plain array, so past its end channelMeshes[index] is undefined
\* and reading .position throws a TypeError
ChannelMeshAccess(index) == IF index \in ChanIdx THEN "none" ELSE "TypeError"
Raise(err) == raised' = IF err = "none" THEN raised ELSE raised \cup {err}
restOfChannel == <<graphVars, pathQuery, attrVars, origVars, positions, gpuVars, edgeVars,
                   layoutVars, clockVars, pickVars, lastStep, pendingWrite>>
setChannelPosition(index, p) ==
  /\ RendererBuilt
  /\ Raise(ChannelMeshAccess(index))
  /\ channelPos' = IF index \in ChanIdx THEN [channelPos EXCEPT ![index] = p]
                   ELSE channelPos
  /\ Called("setChannelPosition", {index})
  /\ UNCHANGED restOfChannel

getChannelPosition(index) ==
  /\ RendererBuilt
  /\ Raise(ChannelMeshAccess(index))
  /\ Called("getChannelPosition", {index})
  /\ UNCHANGED <<restOfChannel, channelPos>>

setBlockColor(index, c) ==
  /\ RendererBuilt
  /\ colorAttr' = IF index \in BlockIdx THEN [colorAttr EXCEPT ![index] = c] ELSE colorAttr
  /\ pendingWrite' = IF index \in BlockIdx THEN NoteWrite("color", index) ELSE pendingWrite
  /\ Called("setBlockColor", {index})
  /\ UNCHANGED <<restOfNode, opacityAttr, scaleAttr, posVars, gpuVars>>

setBlockOpacity(index, opacity) ==
  /\ RendererBuilt
  /\ opacityAttr' = IF index \in BlockIdx THEN [opacityAttr EXCEPT ![index] = opacity] ELSE opacityAttr
  /\ pendingWrite' = IF index \in BlockIdx THEN NoteWrite("opacity", index) ELSE pendingWrite
  /\ Called("setBlockOpacity", {index})
  /\ UNCHANGED <<restOfNode, colorAttr, scaleAttr, posVars, gpuVars>>

setBlockScale(index, scale) ==
  /\ RendererBuilt
  /\ scaleAttr' = IF index \in BlockIdx THEN [scaleAttr EXCEPT ![index] = scale] ELSE scaleAttr
  /\ pendingWrite' = IF index \in BlockIdx THEN NoteWrite("scale", index) ELSE pendingWrite
  /\ Called("setBlockScale", {index})
  /\ UNCHANGED <<restOfNode, colorAttr, opacityAttr, posVars, gpuVars>>

\* geo.getAttribute(...).needsUpdate = true, for the three attributes
AttrKinds == {"color", "opacity", "scale"}
Committed(flags, ks) == [k \in Kinds |-> IF k \in ks THEN TRUE ELSE flags[k]]
Forget(pw, ks) == [k \in Kinds |-> IF k \in ks THEN NoWrite ELSE pw[k]]

commitAttributes ==
  /\ RendererBuilt
  /\ needsUpdate' = Committed(needsUpdate, AttrKinds)
  /\ pendingWrite' = Forget(pendingWrite, AttrKinds)
  /\ Called("commitAttributes", {})
  /\ UNCHANGED <<restOfNode, attrVars, posVars, gpu>>

commitPositions ==
  /\ RendererBuilt
  /\ needsUpdate' = Committed(needsUpdate, {"matrix"})
  /\ pendingWrite' = Forget(pendingWrite, {"matrix"})
  /\ Called("commitPositions", {})
  /\ UNCHANGED <<restOfNode, attrVars, posVars, gpu>>

\* the three attribute arrays as one value
Buffers == [color |-> colorAttr, opacity |-> opacityAttr, scale |-> scaleAttr]

\* colorAttr.set(originalColors); opacityAttr.set(originalOpacities);
\* scaleAttr.set(originalScales)
ResetKeepsColors(buf) ==
  [color |-> buf.color, opacity |-> originalOpacities, scale |-> originalScales]
ResetBuffers(buf) ==
  [color |-> originalColors, opacity |-> originalOpacities, scale |-> originalScales]

resetAttributes ==
  /\ RendererBuilt
  /\ colorAttr' = ResetBuffers(Buffers).color
  /\ opacityAttr' = ResetBuffers(Buffers).opacity
  /\ scaleAttr' = ResetBuffers(Buffers).scale
  /\ needsUpdate' = Committed(needsUpdate, AttrKinds)
  /\ pendingWrite' = Forget(pendingWrite, AttrKinds)
  /\ Called("resetAttributes", {})
  /\ UNCHANGED <<restOfNode, posVars, gpu>>

\* for each i: visibleIndices.has(i) ? original opacity and scale : FADED_OPACITY and 0.5
FadeKeepsVisible(buf, visibleIndices) ==
  [color |-> buf.color,
   opacity |-> [i \in BlockIdx |->
                  IF i \in visibleIndices THEN buf.opacity[i] ELSE FADED_OPACITY],
   scale |-> [i \in BlockIdx |->
                IF i \in visibleIndices THEN buf.scale[i] ELSE FadedScale]]
FadeBuffers(buf, visibleIndices) ==
  [color |-> buf.color,
   opacity |-> [i \in BlockIdx |->
                  IF i \in visibleIndices THEN originalOpacities[i] ELSE FADED_OPACITY],
   scale |-> [i \in BlockIdx |->
                IF i \in visibleIndices THEN originalScales[i] ELSE FadedScale]]

fadeAllExcept(visibleIndices) ==
  /\ RendererBuilt
  /\ colorAttr' = FadeBuffers(Buffers, visibleIndices).color
  /\ opacityAttr' = FadeBuffers(Buffers, visibleIndices).opacity
  /\ scaleAttr' = FadeBuffers(Buffers, visibleIndices).scale
  /\ needsUpdate' = Committed(needsUpdate, AttrKinds)
  /\ pendingWrite' = Forget(pendingWrite, AttrKinds)
  /\ Called("fadeAllExcept", visibleIndices)
  /\ UNCHANGED <<restOfNode, posVars, gpu>>

\* renderer.render(scene, camera): every attribute whose needsUpdate flag is set is
\* uploaded with the array's current content and its flag is cleared (three.js)
Uploaded(k, cpu) == IF needsUpdate[k] THEN cpu ELSE gpu[k]
Render ==
  /\ RendererBuilt
  /\ gpu' = [color |-> Uploaded("color", colorAttr),
             opacity |-> Uploaded("opacity", opacityAttr),
             scale |-> Uploaded("scale", scaleAttr),
             matrix |-> Uploaded("matrix", positions)]
  /\ needsUpdate' = [k \in Kinds |-> FALSE]
  /\ pendingWrite' = [k \in Kinds |-> [pendingWrite[k] EXCEPT !.shown = pendingWrite[k].active]]
  /\ UNCHANGED <<restOfNode, attrVars, posVars, lastOps>>

(***************************************************************************)
(* EdgeRenderer                                                            *)
(***************************************************************************)
\* a vertex colour is the rgb triple last written (0..255 per component) and the
\* number of times it has since been multiplied by 0.1
PATH_COLOR == <<255, 51, 102>>
Vertex(c) == [rgb |-> c, dim |-> 0]
Dimmed(v) == [rgb |-> v.rgb, dim |-> v.dim + 1]

\* graphData.getChannelColor(id): channelColorMap[id] || '#666666'
getChannelColor(id) ==
  IF id \in DOMAIN channelColorMap THEN channelColorMap[id] ELSE DefaultColor

\* new EdgeRenderer(scene, graphData, nodeRenderer)
EdgeInit ==
  /\ positionArray = Built([k \in 1..Len(edges) |-> <<Origin, Origin>>])
  /\ colorArray = Built([k \in 1..Len(edges) |->
                           <<Vertex(getChannelColor(edges[k].source)),
                             Vertex(getChannelColor(edges[k].source))>>])

restOfEdge == <<graphVars, raised, pathQuery, attrVars, origVars, posVars, gpuVars, positionArray,
                layoutVars, clockVars, pickVars, lastStep, pendingWrite>>

\* fadeEdgesExcept(visibleBlockIndices): both vertex colours of an edge whose target
\* block is not visible are multiplied by 0.1
EdgeVisible(e, visibleBlockIndices) ==
  /\ e.target \in DOMAIN blockIndexMap
  /\ blockIndexMap[e.target] \in visibleBlockIndices
fadeEdgesExcept(visibleBlockIndices) ==
  /\ RendererBuilt
  /\ colorArray' = [k \in 1..Len(edges) |->
                      IF EdgeVisible(edges[k], visibleBlockIndices) THEN colorArray[k]
                      ELSE <<Dimmed(colorArray[k][1]), Dimmed(colorArray[k][2])>>]
  /\ Called("fadeEdgesExcept", visibleBlockIndices)
  /\ UNCHANGED restOfEdge

\* resetColors(): both vertices get the colour of the edge's source channel
ResetFirstVertex(k) ==
  <<Vertex(getChannelColor(edges[k].source)), colorArray[k][2]>>
ResetEdge(k) ==
  <<Vertex(getChannelColor(edges[k].source)), Vertex(getChannelColor(edges[k].source))>>
resetColors ==
  /\ RendererBuilt
  /\ colorArray' = [k \in 1..Len(edges) |-> ResetEdge(k)]
  /\ Called("resetColors", {})
  /\ UNCHANGED restOfEdge

\* highlightEdges(edgeIndices, color): edge indices count from 0; a write past the
\* end of the Float32Array (or at a negative index) stores nothing
highlightEdges(edgeIndices, color) ==
  /\ RendererBuilt
  /\ colorArray' = [k \in 1..Len(edges) |->
                      IF k - 1 \in edgeIndices THEN <<Vertex(color), Vertex(color)>>
                      ELSE colorArray[k]]
  /\ Called("highlightEdges", edgeIndices)
  /\ UNCHANGED restOfEdge

\* updatePositions(): look each edge's channel and block up in the node store
EdgeSource(e, chPos) ==
  IF e.source \in DOMAIN channelIndexMap THEN chPos[channelIndexMap[e.source]] ELSE Origin
EdgeTargetStale(e, blPos) ==
  IF e.target \in DOMAIN blockIndexMap THEN positions[blockIndexMap[e.target]] ELSE Origin
EdgeTarget(e, blPos) ==
  IF e.target \in DOMAIN blockIndexMap THEN blPos[blockIndexMap[e.target]] ELSE Origin
UpdatedPositions(blPos, chPos) ==
  [k \in 1..Len(edges) |-> <<EdgeSource(edges[k], chPos), EdgeTarget(edges[k], blPos)>>]

(***************************************************************************)
(* LayoutEngine.  A layout is [channelPositions, blockPositions]; an entry *)
(* may be missing (the engine tests "if (pos)").  Time is counted in       *)
(* integer ticks; the eased factor 1 - (1 - t)^3 with t = elapsed/duration *)
(* is kept as the fraction EaseNum / EaseDen.                              *)
(***************************************************************************)
MaxTime == 4
MaxAnims == 2
MaxDuration == 2

Durations == 1..MaxDuration
NoStep == [n |-> 0, latest |-> 0, elapsed |-> 0, duration |-> 0, cb |-> FALSE]

LayoutInit ==
  /\ animating = FALSE
  /\ animCallback = 0
  /\ rafPending = {}
  /\ nextRafId = 1
  /\ animCount = 0
  /\ onCompleteLog = <<>>
  /\ now = 0
  /\ lastFrameTime = -1
  /\ lastStep = NoStep

\* positions after writing every entry the layout has
SnapBlocks(layout, cur) ==
  [i \in BlockIdx |-> IF i \in DOMAIN layout.blockPositions
                        THEN layout.blockPositions[i] ELSE cur[i]]
SnapChannels(layout, cur) ==
  [i \in ChanIdx |-> IF channels[i + 1] \in DOMAIN layout.channelPositions
                       THEN layout.channelPositions[channels[i + 1]] ELSE cur[i]]

applyImmediateAndCancel(layout) ==
  /\ RendererBuilt
  /\ positions' = SnapBlocks(layout, positions)
  /\ channelPos' = SnapChannels(layout, channelPos)
  /\ needsUpdate' = Committed(needsUpdate, {"matrix"})
  /\ pendingWrite' = Forget(pendingWrite, {"matrix"})
  /\ positionArray' = UpdatedPositions(positions', channelPos')
  /\ animating' = FALSE
  /\ rafPending' = {}
  /\ UNCHANGED <<graphVars, raised, pathQuery, attrVars, origVars, gpu, colorArray, animCallback,
                 nextRafId, animCount, onCompleteLog, clockVars, pickVars, lastStep, lastOps, ops>>
applyImmediate(layout) ==
  /\ RendererBuilt
  /\ positions' = SnapBlocks(layout, positions)
  /\ channelPos' = SnapChannels(layout, channelPos)
  /\ needsUpdate' = Committed(needsUpdate, {"matrix"})
  /\ pendingWrite' = Forget(pendingWrite, {"matrix"})
  /\ positionArray' = UpdatedPositions(positions', channelPos')
  /\ UNCHANGED <<graphVars, raised, pathQuery, attrVars, origVars, gpu, colorArray, layoutVars,
                 clockVars, pickVars, lastStep, lastOps, ops>>

\* if (this._animating && this._animCallback) cancelAnimationFrame(this._animCallback)
CancelNothing(pending, isAnimating, callback) == pending
CancelPending(pending, isAnimating, callback) ==
  IF isAnimating /\ callback # 0 THEN {c \in pending : c.id # callback} ELSE pending

\* startBlock.push(nr.getBlockPosition(i)) for every block
CaptureBlocks(cur) == [i \in BlockIdx |-> cur[i]]
CaptureChannels(cur) == [i \in ChanIdx |-> cur[i]]

animateTo(layout, duration, hasCallback) ==
  /\ RendererBuilt
  /\ animCount < MaxAnims
  /\ now + duration <= MaxTime
  /\ LET a == [n |-> animCount + 1,
               startBlock |-> CaptureBlocks(positions),
               startChannel |-> CaptureChannels(channelPos),
               startTime |-> now, duration |-> duration, layout |-> layout,
               cb |-> hasCallback,
               \* history: the start positions of the animation this call cancels
               prev |-> {c.anim.startBlock : c \in rafPending}]
     IN rafPending' = CancelPending(rafPending, animating, animCallback)
                        \cup {[id |-> nextRafId, anim |-> a]}
  /\ animating' = TRUE
  /\ animCallback' = nextRafId
  /\ nextRafId' = nextRafId + 1
  /\ animCount' = animCount + 1
  /\ UNCHANGED <<graphVars, raised, pathQuery, attrVars, origVars, posVars, gpuVars, edgeVars,
                 onCompleteLog, clockVars, pickVars, lastStep, pendingWrite, lastOps>>

\* let t = (performance.now() - startTime) / duration; if (t > 1) t = 1
Unclamped(elapsed, duration) == elapsed
ClampT(elapsed, duration) == IF elapsed > duration THEN duration ELSE elapsed
\* easeOutCubic(t) = 1 - (1 - t)^3
EaseNum(el, d) == d^3 - (d - el)^3
EaseDen(d) == d^3
\* s + (e - s) * ease
Lerp(s, e, el, d) == s + ((e - s) * EaseNum(el, d)) \div EaseDen(d)
LerpVec(s, e, el, d) ==
  <<Lerp(s[1], e[1], el, d), Lerp(s[2], e[2], el, d), Lerp(s[3], e[3], el, d)>>
\* if (t < 1) requestAnimationFrame(step) else finish
ContinuesOnEqual(el, d) == el <= d
Continues(el, d) == el < d

\* one run of the step closure of animation a on the engine state st
StepFn(st, a) ==
  LET el == ClampT(now - a.startTime, a.duration)
      d == a.duration
      bp == a.layout.blockPositions
      cp == a.layout.channelPositions
      newBlocks == [i \in BlockIdx |->
                      IF i \in DOMAIN bp THEN LerpVec(a.startBlock[i], bp[i], el, d)
                      ELSE st.positions[i]]
      newChannels == [i \in ChanIdx |->
                        IF channels[i + 1] \in DOMAIN cp
                          THEN LerpVec(a.startChannel[i], cp[channels[i + 1]], el, d)
                          ELSE st.channelPos[i]]
      more == Continues(el, d)
  IN [positions |-> newBlocks,
      channelPos |-> newChannels,
      animating |-> IF more THEN st.animating ELSE FALSE,
      animCallback |-> IF more THEN st.nextRafId ELSE st.animCallback,
      pending |-> IF more THEN st.pending \cup {[id |-> st.nextRafId, anim |-> a]}
                  ELSE st.pending,
      nextRafId |-> IF more THEN st.nextRafId + 1 ELSE st.nextRafId,
      log |-> IF ~more /\ a.cb THEN Append(st.log, a.n) ELSE st.log,
      last |-> [n |-> a.n, latest |-> animCount, elapsed |-> now - a.startTime,
                duration |-> d, cb |-> a.cb]]

\* the browser delivers a frame: every callback registered before the frame runs once,
\* in registration order
RECURSIVE RunCallbacks(_, _)
RunCallbacks(st, cbs) ==
  IF cbs = {} THEN st
  ELSE LET c == CHOOSE x \in cbs : \A y \in cbs : x.id <= y.id
       IN RunCallbacks(StepFn(st, c.anim), cbs \ {c})

AnimationFrame ==
  /\ rafPending # {}
  /\ now > lastFrameTime
  /\ LET st == RunCallbacks([positions |-> positions, channelPos |-> channelPos,
                             animating |-> animating, animCallback |-> animCallback,
                             pending |-> {}, nextRafId |-> nextRafId,
                             log |-> onCompleteLog, last |-> lastStep], rafPending)
     IN /\ positions' = st.positions
        /\ channelPos' = st.channelPos
        /\ animating' = st.animating
        /\ animCallback' = st.animCallback
        /\ rafPending' = st.pending
        /\ nextRafId' = st.nextRafId
        /\ onCompleteLog' = st.log
        /\ lastStep' = st.last
        /\ positionArray' = UpdatedPositions(st.positions, st.channelPos)
  /\ needsUpdate' = Committed(needsUpdate, {"matrix"})
  /\ pendingWrite' = Forget(pendingWrite, {"matrix"})
  /\ lastFrameTime' = now
  /\ UNCHANGED <<graphVars, raised, pathQuery, attrVars, origVars, gpu, colorArray, animCount,
                 now, pickVars, lastOps>>

\* performance.now() moves on
AdvanceTime ==
  /\ now < MaxTime
  /\ now' = now + 1
  /\ UNCHANGED <<graphVars, raised, pathQuery, attrVars, origVars, posVars, gpuVars, edgeVars,
                 layoutVars, lastFrameTime, pickVars, lastStep, pendingWrite, lastOps>>

(***************************************************************************)
(* Raycaster and the picking shader                                        *)
(***************************************************************************)
MaxPickId == 16777215

\* picking.vert: r = mod(id, 256), g = mod(floor(id / 256), 256),
\* b = mod(floor(id / 65536), 256), each written as c / 255 into an 8-bit channel
EncodeGreenTruncated(id) == <<id % 256, (id \div 255) % 256, (id \div 65536) % 256, 255>>
EncodePickColor(id) == <<id % 256, (id \div 256) % 256, (id \div 65536) % 256, 255>>
\* renderer.setClearColor(0x000000, 0); renderer.clear()
ClearPixel == <<0, 0, 0, 0>>
\* const id = r + g * 256 + b * 65536
DecodePickId(px) == px[1] + px[2] * 256 + px[3] * 65536
\* return id > 0 ? id - 1 : -1
PickIndex(id) == IF id > 0 THEN id - 1 ELSE -1

PickInit ==
  /\ pickTargetOk = TRUE
  /\ pixelBuffer = ClearPixel
  /\ pickResult = -1
  /\ pickedId = 0

\* the pick pass draws the instance whose stored pick id is id (0: no instance at the
\* cursor pixel), reads the pixel back and decodes it
\* what the pick pass does with the render target: three.js draws and reads the pixel;
\* with a target that cannot be used the library either stores nothing in the pixel
\* buffer or throws, and pick() has no handler for either
PassOutcomes == IF pickTargetOk THEN {"drawn"} ELSE {"nothing stored", "thrown"}

pickPass(id, outcome) ==
  /\ RendererBuilt
  /\ pickedId' = id
  \* readRenderTargetPixels stores into the pixel buffer the constructor allocated, so
  \* after a failed pass the buffer keeps what the last successful read left in it
  /\ pixelBuffer' = IF outcome # "drawn" THEN pixelBuffer
                    ELSE IF id = 0 THEN ClearPixel ELSE EncodePickColor(id)
  /\ pickResult' = IF outcome = "thrown" THEN pickResult
                   ELSE PickIndex(DecodePickId(pixelBuffer'))
  /\ Raise(IF outcome = "thrown" THEN "Error" ELSE "none")
  \* the pick mesh shares the instanced geometry: its render pass uploads the
  \* attributes that are flagged
  /\ gpu' = IF outcome # "drawn" THEN gpu
            ELSE [color |-> Uploaded("color", colorAttr),
                  opacity |-> Uploaded("opacity", opacityAttr),
                  scale |-> Uploaded("scale", scaleAttr),
                  matrix |-> gpu.matrix]
  /\ needsUpdate' = IF outcome # "drawn" THEN needsUpdate
                    ELSE [k \in Kinds |-> IF k \in AttrKinds THEN FALSE ELSE needsUpdate[k]]
  /\ UNCHANGED <<graphVars, pathQuery, attrVars, origVars, posVars, edgeVars,
                 layoutVars, clockVars, histVars, pickTargetOk>>

pickStored(id) == \E outcome \in PassOutcomes : pickPass(id, outcome)

\* the offscreen render target cannot be allocated, or is lost with the GL context
LoseTarget ==
  /\ RendererBuilt
  /\ pickTargetOk
  /\ pickTargetOk' = FALSE
  /\ UNCHANGED <<graphVars, raised, pathQuery, attrVars, origVars, posVars, gpuVars,
                 edgeVars, layoutVars, clockVars, histVars, pixelBuffer, pickResult,
                 pickedId>>

\* pick() with the cursor over instance hit (-1: over no instance)
pick(hit) == pickStored(IF hit = -1 THEN 0 ELSE pickIdAttr[hit])

(***************************************************************************)
(* AppState                                                                *)
(***************************************************************************)
\* the nested set calls the call stack has room for
MaxStack == 2

HIGHLIGHT_SCALE == 15
SEARCH_HIGHLIGHT_COLOR == <<0, 242, 255>>
DefaultTypes == {"Image", "Media", "Link", "Text", "Attachment"}
\* visibleBlockIndices: null, written as the set holding the index no block has
Null == {-1}
\* timelineRange, in thousandths
FullRange == <<0, 1000>>

\* the constructor's _state
InitialState ==
  [hoveredNodeIndex |-> -1, selectedNodeIndex |-> -1, kbSelectedNodeIndex |-> -1,
   visibleTypes |-> DefaultTypes, visibleChannels |-> {}, activeCategories |-> <<>>,
   timelineRange |-> FullRange, visibleBlockIndices |-> Null,
   crosslinksActive |-> FALSE, pathMode |-> FALSE, pathResult |-> <<>>,
   constellationActive |-> FALSE, ageHeatmapActive |-> FALSE, walkActive |-> FALSE,
   walkTrail |-> <<>>, galleryOpen |-> FALSE, statsOpen |-> FALSE,
   similarTarget |-> -1, similarResults |-> <<>>]

NoTrace == [events |-> <<>>, calls |-> <<>>, writers |-> [i \in BlockIdx |-> {}],
            overflow |-> FALSE]

\* main.js has constructed the features: FilterEngine._initChannelFilter has set
\* visibleChannels before any listener on it exists
AppInit ==
  /\ appState = [InitialState EXCEPT !.visibleChannels = Range(channels)]
  /\ featureState = [lastHovered |-> -1, endpoints |-> <<>>, panelOpen |-> FALSE,
                     interval |-> FALSE, searchShown |-> FALSE]
  /\ trace = NoTrace

\* everything an event handler reads and writes, threaded through its calls:
\* st AppState._state, fs the features' fields, buf / nu / gpu / pw / lo the node
\* renderer's buffers, flags, uploads and histories, ec the edge colours, ev the events
\* dispatched, calls the batch calls made, wr who wrote which block index,
\* cur the feature running
World ==
  [st |-> appState, fs |-> featureState, buf |-> Buffers, nu |-> needsUpdate, gpu |-> gpu,
   pw |-> pendingWrite, lo |-> lastOps, ec |-> colorArray, ev |-> <<>>, calls |-> <<>>,
   wr |-> [i \in BlockIdx |-> {}], cur |-> "main", overflow |-> FALSE, rnd |-> 0]

\* the body of a feature's method, run as that feature
As(who, W) == [W EXCEPT !.cur = who]
Back(W, R) == [R EXCEPT !.cur = W.cur]

\* NodeRenderer and EdgeRenderer calls inside a handler
CalledIn(W, name, arg) == <<W.lo[2], [op |-> name, arg |-> arg]>>
WriteIn(W, k, i) ==
  [active |-> TRUE, idx |-> i, old |-> W.gpu[k][i], clean |-> ~W.nu[k], shown |-> FALSE]
Wrote(W, S) == [i \in BlockIdx |-> IF i \in S THEN W.wr[i] \cup {W.cur} ELSE W.wr[i]]
setIn(W, k, name, i, v) ==
  IF i \in BlockIdx
    THEN [W EXCEPT !.buf[k][i] = v, !.pw[k] = WriteIn(W, k, i), !.wr = Wrote(W, {i}),
                   !.lo = CalledIn(W, name, {i})]
    ELSE [W EXCEPT !.lo = CalledIn(W, name, {i})]
setBlockColorIn(W, i, c) == setIn(W, "color", "setBlockColor", i, c)
setBlockOpacityIn(W, i, o) == setIn(W, "opacity", "setBlockOpacity", i, o)
setBlockScaleIn(W, i, x) == setIn(W, "scale", "setBlockScale", i, x)
\* a commit that leaves the flags as they are
commitSkipped(W) == [W EXCEPT !.lo = CalledIn(W, "commitAttributes", {})]
commitAttributesIn(W) ==
  [W EXCEPT !.nu = Committed(W.nu, AttrKinds), !.pw = Forget(W.pw, AttrKinds),
            !.lo = CalledIn(W, "commitAttributes", {})]
resetAttributesIn(W) ==
  [W EXCEPT !.buf = ResetBuffers(W.buf), !.nu = Committed(W.nu, AttrKinds),
            !.pw = Forget(W.pw, AttrKinds), !.wr = Wrote(W, BlockIdx),
            !.lo = CalledIn(W, "resetAttributes", {})]
fadeAllExceptIn(W, visibleIndices) ==
  [W EXCEPT !.buf = FadeBuffers(W.buf, visibleIndices),
            !.nu = Committed(W.nu, AttrKinds), !.pw = Forget(W.pw, AttrKinds),
            !.wr = Wrote(W, BlockIdx),
            !.lo = CalledIn(W, "fadeAllExcept", visibleIndices)]
resetColorsIn(W) ==
  [W EXCEPT !.ec = [k \in 1..Len(edges) |-> ResetEdge(k)],
            !.lo = CalledIn(W, "resetColors", {})]
highlightEdgesIn(W, edgeIndices, color) ==
  [W EXCEPT !.ec = [k \in 1..Len(edges) |->
                      IF k - 1 \in edgeIndices THEN <<Vertex(color), Vertex(color)>>
                      ELSE W.ec[k]],
            !.lo = CalledIn(W, "highlightEdges", edgeIndices)]

\* for (const idx of list) { setBlockColor; setBlockScale; setBlockOpacity }: the
\* writes of a loop, in order; a write is <<kind, index, value>>
WriteNames == [color |-> "setBlockColor", opacity |-> "setBlockOpacity",
               scale |-> "setBlockScale"]
\* a call has returned and left W behind: the next statement starts from it
Returned(W) == W.overflow \in BOOLEAN
RECURSIVE writeAll(_, _)
writeAll(W, ws) ==
  IF ws = <<>> THEN W
  ELSE LET W1 == setIn(W, ws[1][1], WriteNames[ws[1][1]], ws[1][2], ws[1][3])
       IN IF Returned(W1) THEN writeAll(W1, Tail(ws)) ELSE W1

\* the elements of a Set filled in ascending order, in iteration order
RECURSIVE Ascending(_)
Ascending(S) ==
  IF S = {} THEN <<>>
  ELSE LET m == CHOOSE x \in S : \A y \in S : x <= y
       IN <<m>> \o Ascending(S \ {m})
RECURSIVE Flatten(_)
Flatten(ss) == IF ss = <<>> THEN <<>> ELSE ss[1] \o Flatten(Tail(ss))

\* AppState.set, AppState.batch, dispatchEvent and the listeners registered with on();
\* d is the number of set / batch calls on the call stack
RECURSIVE set(_, _, _, _), dispatchEvent(_, _, _, _), dispatchAll(_, _, _, _),
          batch(_, _, _), batchEager(_, _, _), setEach(_, _, _, _), close(_, _), clear(_, _),
          applyFilters(_, _), step(_, _), findPath(_, _), onPathMode(_, _, _),
          onSimilarTarget(_, _, _), onWalkActive(_, _, _), onSelectedNodeIndex(_, _, _),
          find(_, _, _), start(_, _), stop(_, _)

Event(W, key, value, old, d, c) ==
  [key |-> key, value |-> value, old |-> old, depth |-> d, call |-> c, seen |-> W.st]

\* set(key, value): assign, then dispatch 'change:key' to the listeners, which run
\* before set returns.  A call the stack has no room for throws a RangeError, which
\* the dispatchEvent that invoked the calling listener reports and does not rethrow
set(W, key, value, d) ==
  IF d > MaxStack THEN [W EXCEPT !.overflow = TRUE]
  ELSE LET W1 == [W EXCEPT !.st[key] = value]
           W2 == [W1 EXCEPT !.ev = Append(@, Event(W1, key, value, W.st[key], d, 0))]
       IN dispatchEvent(W2, key, value, d)

\* first loop of batch: this._state[key] = value for every entry
RECURSIVE assignAll(_, _)
assignAll(st, updates) ==
  IF updates = <<>> THEN st
  ELSE assignAll([st EXCEPT ![updates[1][1]] = updates[1][2]], Tail(updates))
\* changes.push([key, value, old])
RECURSIVE changesOf(_, _)
changesOf(st, updates) ==
  IF updates = <<>> THEN <<>>
  ELSE <<<<updates[1][1], updates[1][2], st[updates[1][1]]>>>>
         \o changesOf([st EXCEPT ![updates[1][1]] = updates[1][2]], Tail(updates))

\* second loop of batch: one event per entry, in order
dispatchAll(W, changes, d, c) ==
  IF changes = <<>> THEN W
  ELSE LET ch == changes[1]
           W1 == [W EXCEPT !.ev = Append(@, Event(W, ch[1], ch[2], ch[3], d, c))]
           W2 == dispatchEvent(W1, ch[1], ch[2], d)
       IN IF Returned(W2) THEN dispatchAll(W2, Tail(changes), d, c) ELSE W2

\* a batch that dispatches each event right after its assignment
setEach(W, updates, d, c) ==
  IF updates = <<>> THEN W
  ELSE LET u == updates[1]
           W1 == [W EXCEPT !.st[u[1]] = u[2]]
           W2 == [W1 EXCEPT !.ev = Append(@, Event(W1, u[1], u[2], W.st[u[1]], d, c))]
           W3 == dispatchEvent(W2, u[1], u[2], d)
       IN IF Returned(W3) THEN setEach(W3, Tail(updates), d, c) ELSE W3
batchEager(W, updates, d) ==
  IF d > MaxStack THEN [W EXCEPT !.overflow = TRUE]
  ELSE setEach([W EXCEPT !.calls = Append(@, [updates |-> updates, before |-> W.st])],
               updates, d, Len(W.calls) + 1)
batch(W, updates, d) ==
  IF d > MaxStack THEN [W EXCEPT !.overflow = TRUE]
  ELSE LET c == Len(W.calls) + 1
           W0 == [W EXCEPT !.calls = Append(@, [updates |-> updates, before |-> W.st]),
                           !.st = assignAll(W.st, updates)]
       IN dispatchAll(W0, changesOf(W.st, updates), d, c)

(***************************************************************************)
(* SelectionManager and DetailPanel                                        *)
(***************************************************************************)
\* the blocks of the channels of the block at centerIdx, and the block itself
neighborIndices(centerIdx) ==
  {centerIdx} \cup
  {blockIndexMap[n] :
     n \in {m \in UNION {Range(Lookup(adjacency, ch)) :
                           ch \in Range(Lookup(blockToChannelsMap, blocks[centerIdx + 1]))} :
              m \in DOMAIN blockIndexMap}}

highlightNeighborhood(W, centerIdx) ==
  IF centerIdx \notin BlockIdx THEN W
  ELSE commitAttributesIn(
         setBlockOpacityIn(
           setBlockScaleIn(fadeAllExceptIn(W, neighborIndices(centerIdx)),
                           centerIdx, HIGHLIGHT_SCALE),
           centerIdx, FullOpacity))

onHover(W, idx) ==
  LET V == As("selection", W)
      last == V.fs.lastHovered
      W1 == IF last >= 0 /\ last # V.st.selectedNodeIndex
              THEN commitAttributesIn(setBlockScaleIn(V, last, originalScales[last]))
              ELSE V
      W2 == IF idx >= 0
              THEN commitAttributesIn(
                     highlightNeighborhood(setBlockScaleIn(W1, idx, HOVER_SCALE), idx))
              ELSE IF W1.st.selectedNodeIndex < 0 THEN resetAttributesIn(W1) ELSE W1
  IN Back(W, [W2 EXCEPT !.fs.lastHovered = idx])

\* the camera the selection flies to is not part of the model
onSelect(W, idx) ==
  LET V == As("selection", W)
  IN Back(W, IF idx >= 0 THEN highlightNeighborhood(V, idx)
             ELSE resetColorsIn(resetAttributesIn(V)))

\* DetailPanel: show(data) opens the panel on a block, close() closes it and sets
\* selectedNodeIndex to -1
show(W, idx) == IF idx \in BlockIdx THEN [W EXCEPT !.fs.panelOpen = TRUE] ELSE W
close(W, d) == set([W EXCEPT !.fs.panelOpen = FALSE], "selectedNodeIndex", -1, d + 1)
onSelectedNodeIndex(W, idx, d) == IF idx >= 0 THEN show(W, idx) ELSE close(W, d)

\* SelectionManager.clearSelection()
clearSelection(W, d) ==
  LET V == batch(As("selection", W),
                 <<<<"hoveredNodeIndex", -1>>, <<"selectedNodeIndex", -1>>>>, d + 1)
  IN Back(W, resetColorsIn(resetAttributesIn(V)))

(***************************************************************************)
(* PathFinder, AgeHeatmap, FindSimilar, RandomWalk, SearchEngine,          *)
(* FilterEngine                                                            *)
(***************************************************************************)
PathEndScale == 20
PathScale == 15
\* for (const idx of list): setBlockColor, setBlockScale, setBlockOpacity
Emphasis(list, color, scale, opacity) ==
  Flatten([k \in 1..Len(list) |->
             <<<<"color", list[k], color>>, <<"scale", list[k], scale>>,
               <<"opacity", list[k], opacity>>>>])

\* edgeRenderer.edgeIndexMap['a-b']: the last edge joining a and b, either way round
EdgesJoining(a, b) ==
  {k \in 1..Len(edges) : {edges[k].source, edges[k].target} = {a, b}}
pathEdgeIndices(path) ==
  {CHOOSE k \in EdgesJoining(path[i], path[i + 1]) :
       \A j \in EdgesJoining(path[i], path[i + 1]) : j <= k :
     i \in {h \in 1..(Len(path) - 1) : EdgesJoining(path[h], path[h + 1]) # {}}}

\* the entries of a list that satisfy a test, in order
RECURSIVE Keep(_, _)
Keep(list, S) ==
  IF list = <<>> THEN <<>>
  ELSE (IF Head(list) \in S THEN <<Head(list)>> ELSE <<>>) \o Keep(Tail(list), S)
IndicesOf(ids) == [k \in 1..Len(ids) |-> blockIndexMap[ids[k]]]

findPath(W, d) ==
  LET startIdx == W.fs.endpoints[1]
      endIdx == W.fs.endpoints[2]
      path == bfsPath(adjacency, blocks[startIdx + 1], blocks[endIdx + 1]).path
      pathIndices == IndicesOf(Keep(path, DOMAIN blockIndexMap))
      W1 == writeAll(fadeAllExceptIn(W, Range(pathIndices)),
                     Emphasis(pathIndices, PATH_COLOR, PathScale, FullOpacity))
      W2 == commitAttributesIn(
              setBlockScaleIn(setBlockScaleIn(W1, startIdx, PathEndScale),
                              endIdx, PathEndScale))
      W3 == highlightEdgesIn(W2, {k - 1 : k \in pathEdgeIndices(path)}, PATH_COLOR)
  IN IF path = <<>> THEN W ELSE set(W3, "pathResult", pathIndices, d + 1)

addEndpoint(W, blockIndex, d) ==
  LET V == As("path", W)
      W1 == [V EXCEPT !.fs.endpoints = Append(@, blockIndex)]
      W2 == IF Len(W1.fs.endpoints) = 1
              THEN commitAttributesIn(
                     writeAll(W1, <<<<"color", blockIndex, PATH_COLOR>>,
                                    <<"scale", blockIndex, PathEndScale>>,
                                    <<"opacity", blockIndex, FullOpacity>>>>))
              ELSE W1
  IN IF ~W.st.pathMode THEN W
     ELSE Back(W, IF Len(W2.fs.endpoints) = 2 THEN findPath(W2, d) ELSE W2)

\* PathFinder._clear()
clear(W, d) ==
  set(resetColorsIn(resetAttributesIn([W EXCEPT !.fs.endpoints = <<>>])),
      "pathResult", <<>>, d + 1)
onPathMode(W, active, d) == IF active THEN W ELSE Back(W, clear(As("path", W), d))
toggle(W, d) ==
  LET active == ~W.st.pathMode
      W1 == set(W, "pathMode", active, d + 1)
  IN IF active THEN [W1 EXCEPT !.fs.endpoints = <<>>] ELSE W1

\* ageGradientColor(t), t in thousandths, colour components rounded down
AGE_GRADIENT == <<<<0, <<0, 102, 255>>>>, <<250, <<0, 204, 204>>>>, <<500, <<0, 204, 0>>>>,
                  <<750, <<204, 204, 0>>>>, <<1000, <<255, 51, 0>>>>>>
Clamp01(t) == IF t < 0 THEN 0 ELSE IF t > 1000 THEN 1000 ELSE t
Mix(a, b, num, den) == (a * den + (b - a) * num) \div den
ageGradientColor(t) ==
  LET c == Clamp01(t)
      i == CHOOSE k \in 1..(Len(AGE_GRADIENT) - 1) :
             /\ c >= AGE_GRADIENT[k][1] /\ c <= AGE_GRADIENT[k + 1][1]
             /\ \A j \in 1..(k - 1) : ~(c >= AGE_GRADIENT[j][1] /\ c <= AGE_GRADIENT[j + 1][1])
      t0 == AGE_GRADIENT[i][1]
      t1 == AGE_GRADIENT[i + 1][1]
      c0 == AGE_GRADIENT[i][2]
      c1 == AGE_GRADIENT[i + 1][2]
  IN <<Mix(c0[1], c1[1], c - t0, t1 - t0), Mix(c0[2], c1[2], c - t0, t1 - t0),
       Mix(c0[3], c1[3], c - t0, t1 - t0)>>

AgeOpacity == 70
\* AgeHeatmap._apply()
apply(W) ==
  LET range == blockMeta.maxDate - blockMeta.minDate
      color(i) == ageGradientColor(((blockMeta.ts[blocks[i + 1]] - blockMeta.minDate) * 1000)
                                     \div range)
      ws == Flatten([k \in 1..Len(blocks) |->
                       <<<<"color", k - 1, color(k - 1)>>, <<"opacity", k - 1, AgeOpacity>>>>])
  IN IF range <= 0 THEN W ELSE commitAttributesIn(writeAll(W, ws))
onAgeHeatmapActive(W, active) ==
  Back(W, IF active THEN apply(As("age", W)) ELSE resetAttributesIn(As("age", W)))

\* FindSimilar: the blocks sharing a tag with the target, by descending score; the
\* sort is stable, so equal scores stay in index order
SIMILAR_TOP == 20
SimilarBase == 13
SimilarStep == 2
SimilarOpacity == 90
score(targetIdx, i) ==
  Cardinality(blockMeta.autoTags[blocks[i + 1]] \cap blockMeta.autoTags[blocks[targetIdx + 1]])
RECURSIVE SortedByScore(_, _)
SortedByScore(targetIdx, S) ==
  IF S = {} THEN <<>>
  ELSE LET m == CHOOSE x \in S :
                  \A y \in S : \/ score(targetIdx, y) < score(targetIdx, x)
                               \/ score(targetIdx, y) = score(targetIdx, x) /\ x <= y
       IN <<m>> \o SortedByScore(targetIdx, S \ {m})
FirstN(list, n) == SubSeq(list, 1, IF Len(list) < n THEN Len(list) ELSE n)
find(W, targetIdx, d) ==
  LET top == FirstN(SortedByScore(targetIdx,
                      {i \in BlockIdx \ {targetIdx} : score(targetIdx, i) > 0}), SIMILAR_TOP)
      ws == Flatten([k \in 1..Len(top) |->
                       <<<<"color", top[k], SIMILAR_COLOR>>,
                         <<"scale", top[k], SimilarBase + score(targetIdx, top[k]) * SimilarStep>>,
                         <<"opacity", top[k], SimilarOpacity>>>>])
      W1 == writeAll(fadeAllExceptIn(W, {targetIdx} \cup Range(top)), ws)
      W2 == commitAttributesIn(
              setBlockOpacityIn(setBlockScaleIn(W1, targetIdx, PathEndScale),
                                targetIdx, FullOpacity))
  IN IF targetIdx \notin BlockIdx THEN W
     ELSE IF blockMeta.autoTags[blocks[targetIdx + 1]] = {} THEN W
     ELSE set(W2, "similarResults", top, d + 1)
onSimilarTarget(W, idx, d) ==
  LET V == As("similar", W)
  IN Back(W, IF idx >= 0 THEN find(V, idx, d)
             ELSE set(resetAttributesIn(V), "similarResults", <<>>, d + 1))

\* RandomWalk: Math.random() picks the next block, W.rnd is the index it yields
TRAIL_MAX == 10
TrailOpacity == 90
TrailScale == 13
unvisitedNeighbors(trail) ==
  LET currentIdx == trail[Len(trail)]
  IN (neighborIndices(currentIdx) \ {currentIdx}) \ Range(trail)
candidates(trail) ==
  IF trail = <<>> \/ unvisitedNeighbors(trail) = {} THEN BlockIdx
  ELSE unvisitedNeighbors(trail)
step(W, d) ==
  LET nextIdx == W.rnd
      pushed == Append(W.st.walkTrail, nextIdx)
      trail == IF Len(pushed) > TRAIL_MAX THEN Tail(pushed) ELSE pushed
      W1 == resetAttributesIn(set(W, "walkTrail", trail, d + 1))
      ws == Flatten([k \in 1..Len(trail) |->
                       <<<<"opacity", trail[k], TrailOpacity>>,
                         <<"scale", trail[k], TrailScale>>>>])
      W2 == commitAttributesIn(
              setBlockOpacityIn(setBlockScaleIn(writeAll(W1, ws), nextIdx, PathEndScale),
                                nextIdx, FullOpacity))
  IN set(W2, "selectedNodeIndex", nextIdx, d + 1)
start(W, d) == [step(set(W, "walkTrail", <<>>, d + 1), d) EXCEPT !.fs.interval = TRUE]
stop(W, d) ==
  resetAttributesIn(set([W EXCEPT !.fs.interval = FALSE], "walkTrail", <<>>, d + 1))
onWalkActive(W, active, d) ==
  Back(W, IF active THEN start(As("walk", W), d) ELSE stop(As("walk", W), d))

\* SearchEngine._search(): matchingBlockIds is what the query matches in
\* graphData.searchIndex; an empty set also stands for a query shorter than 2
SearchScale == 18
search(W, matchingBlockIds) ==
  LET V == As("search", W)
      matchIndices == {blockIndexMap[b] : b \in matchingBlockIds \cap DOMAIN blockIndexMap}
      W1 == writeAll(fadeAllExceptIn(V, matchIndices),
                     Emphasis(Ascending(matchIndices), SEARCH_HIGHLIGHT_COLOR,
                              SearchScale, FullOpacity))
  IN Back(W, IF matchingBlockIds = {}
               THEN resetAttributesIn([V EXCEPT !.fs.searchShown = FALSE])
               ELSE commitAttributesIn([W1 EXCEPT !.fs.searchShown = TRUE]))

\* FilterEngine._applyFilters()
passesTimeline(b, timeRange) ==
  LET span == blockMeta.maxDate - blockMeta.minDate
      num == IF span > 0 THEN (blockMeta.ts[b] - blockMeta.minDate) * 1000 ELSE 0
      den == IF span > 0 THEN span ELSE 1
  IN ~(num < timeRange[1] * den \/ num > timeRange[2] * den)
visibleUnderFilters(st) ==
  {i \in BlockIdx :
     LET b == blocks[i + 1]
     IN /\ blockMeta.class[b] \in st.visibleTypes
        /\ \E ch \in Range(Lookup(blockToChannelsMap, b)) : ch \in st.visibleChannels
        /\ Len(st.activeCategories) > 0 =>
             \A tag \in Range(st.activeCategories) : tag \in blockMeta.autoTags[b]
        /\ (st.timelineRange[1] > 0 \/ st.timelineRange[2] < 1000) =>
             passesTimeline(b, st.timelineRange)}
applyFilters(W, d) ==
  LET V == As("filter", W)
      visibleIndices == visibleUnderFilters(V.st)
  IN Back(W, set(fadeAllExceptIn(V, visibleIndices), "visibleBlockIndices",
                 visibleIndices, d + 1))

\* the listeners of each key, in the order main.js constructs the features;
\* ConstellationRenderer, GalleryMode and StatsPanel listen as well and touch neither
\* AppState nor the node and edge colour buffers
dispatchEvent(W, key, value, d) ==
  CASE key = "hoveredNodeIndex" -> onHover(W, value)
    [] key = "selectedNodeIndex" -> onSelectedNodeIndex(onSelect(W, value), value, d)
    [] key \in {"visibleChannels", "activeCategories", "timelineRange"} -> applyFilters(W, d)
    [] key = "pathMode" -> onPathMode(W, value, d)
    [] key = "ageHeatmapActive" -> onAgeHeatmapActive(W, value)
    [] key = "similarTarget" -> onSimilarTarget(W, value, d)
    [] key = "walkActive" -> onWalkActive(W, value, d)
    [] OTHER -> W

(***************************************************************************)
(* The event handlers main.js and the features register with the page      *)
(***************************************************************************)
restOfHandler == <<dataVars, spiralCalls, lastLayout, pathQuery, origVars, posVars,
                   positionArray, layoutVars, clockVars, lastStep>>

\* the handler has returned and left W behind
Handled(W) ==
  /\ appState' = W.st
  /\ featureState' = W.fs
  /\ trace' = [events |-> W.ev, calls |-> W.calls, writers |-> W.wr, overflow |-> W.overflow]
  /\ colorAttr' = W.buf.color
  /\ opacityAttr' = W.buf.opacity
  /\ scaleAttr' = W.buf.scale
  /\ needsUpdate' = W.nu
  /\ gpu' = W.gpu
  /\ pendingWrite' = W.pw
  /\ lastOps' = W.lo
  /\ colorArray' = W.ec
  /\ raised' = IF W.overflow THEN raised \cup {"RangeError"} ELSE raised
  /\ UNCHANGED restOfHandler

\* mousemove: raycaster.pick(), whose render pass uploads the flagged attributes,
\* then hoveredNodeIndex is set when the pick differs from it (the tooltip is not
\* part of the model; a move within 33 ms of the last pick does nothing)
Picked(W) ==
  [W EXCEPT !.gpu = [color |-> Uploaded("color", colorAttr),
                     opacity |-> Uploaded("opacity", opacityAttr),
                     scale |-> Uploaded("scale", scaleAttr), matrix |-> gpu.matrix],
            !.nu = [k \in Kinds |-> IF k \in AttrKinds THEN FALSE ELSE needsUpdate[k]]]
MouseMove(hit) ==
  /\ RendererBuilt
  /\ pickTargetOk
  /\ LET id == IF hit = -1 THEN 0 ELSE pickIdAttr[hit]
         px == IF id = 0 THEN ClearPixel ELSE EncodePickColor(id)
         idx == PickIndex(DecodePickId(px))
     IN /\ pickedId' = id
        /\ pixelBuffer' = px
        /\ pickResult' = idx
        /\ Handled(IF idx # appState.hoveredNodeIndex
                     THEN set(Picked(World), "hoveredNodeIndex", idx, 1)
                     ELSE Picked(World))
  /\ UNCHANGED pickTargetOk

\* click on the canvas
Click ==
  /\ RendererBuilt
  /\ appState.hoveredNodeIndex >= 0
  /\ Handled(IF appState.pathMode
               THEN addEndpoint(World, appState.hoveredNodeIndex, 0)
               ELSE set(World, "selectedNodeIndex", appState.hoveredNodeIndex, 1))
  /\ UNCHANGED pickVars

MouseLeave ==
  /\ RendererBuilt
  /\ Handled(set(World, "hoveredNodeIndex", -1, 1))
  /\ UNCHANGED pickVars

\* btn-reset
ResetUpdates ==
  <<<<"hoveredNodeIndex", -1>>, <<"selectedNodeIndex", -1>>, <<"kbSelectedNodeIndex", -1>>,
    <<"pathMode", FALSE>>, <<"constellationActive", FALSE>>, <<"ageHeatmapActive", FALSE>>,
    <<"walkActive", FALSE>>, <<"similarTarget", -1>>, <<"galleryOpen", FALSE>>,
    <<"statsOpen", FALSE>>>>
ResetButton ==
  /\ RendererBuilt
  /\ Handled(clearSelection(batch(World, ResetUpdates, 1), 0))
  /\ UNCHANGED pickVars

\* btn-crosslinks
CrossHighlightScale == 18
crossIndices == {i \in BlockIdx : IsCrossLinked(blocks[i + 1])}
CrosslinksButton ==
  /\ RendererBuilt
  /\ LET active == ~appState.crosslinksActive
         W1 == As("crosslinks", set(World, "crosslinksActive", active, 1))
         ws == Flatten([k \in 1..Cardinality(crossIndices) |->
                          <<<<"scale", Ascending(crossIndices)[k], CrossHighlightScale>>,
                            <<"opacity", Ascending(crossIndices)[k], FullOpacity>>>>])
     IN Handled(IF active
                  THEN commitAttributesIn(writeAll(fadeAllExceptIn(W1, crossIndices), ws))
                  ELSE resetAttributesIn(W1))
  /\ UNCHANGED pickVars

PathButton ==
  /\ RendererBuilt
  /\ Handled(toggle(World, 0))
  /\ UNCHANGED pickVars

AgeButton ==
  /\ RendererBuilt
  /\ Handled(set(World, "ageHeatmapActive", ~appState.ageHeatmapActive, 1))
  /\ UNCHANGED pickVars

\* btn-walk; r is the index Math.random() yields in the first step
WalkButton(r) ==
  /\ RendererBuilt
  /\ r \in candidates(<<>>)
  /\ Handled(set([World EXCEPT !.rnd = r], "walkActive", ~appState.walkActive, 1))
  /\ UNCHANGED pickVars

\* the interval _start set fires
WalkTick(r) ==
  /\ RendererBuilt
  /\ featureState.interval
  /\ r \in candidates(appState.walkTrail)
  /\ Handled(Back(World, step(As("walk", [World EXCEPT !.rnd = r]), 0)))
  /\ UNCHANGED pickVars

\* the SIMILAR button of the open detail panel
SimilarButton ==
  /\ RendererBuilt
  /\ featureState.panelOpen
  /\ appState.selectedNodeIndex >= 0
  /\ Handled(set(World, "similarTarget", appState.selectedNodeIndex, 1))
  /\ UNCHANGED pickVars

\* Escape with the detail panel open, and the panel's close button
CloseButton ==
  /\ RendererBuilt
  /\ featureState.panelOpen
  /\ Handled(close(World, 0))
  /\ UNCHANGED pickVars

\* the search input, 150 ms after the last keystroke
Search(matchingBlockIds) ==
  /\ RendererBuilt
  /\ Handled(search(World, matchingBlockIds))
  /\ UNCHANGED pickVars

\* a type pill
TypePill(type) ==
  /\ RendererBuilt
  /\ LET types == IF type \in appState.visibleTypes THEN appState.visibleTypes \ {type}
                  ELSE appState.visibleTypes \cup {type}
     IN Handled(applyFilters(set(World, "visibleTypes", types, 1), 0))
  /\ UNCHANGED pickVars

\* an item of the channel list, and the ALL and NONE buttons
ChannelItem(ch) ==
  /\ RendererBuilt
  /\ LET vis == IF ch \in appState.visibleChannels THEN appState.visibleChannels \ {ch}
                ELSE appState.visibleChannels \cup {ch}
     IN Handled(set(World, "visibleChannels", vis, 1))
  /\ UNCHANGED pickVars
AllChannels ==
  /\ RendererBuilt
  /\ Handled(set(World, "visibleChannels", Range(channels), 1))
  /\ UNCHANGED pickVars
NoChannels ==
  /\ RendererBuilt
  /\ Handled(set(World, "visibleChannels", {}, 1))
  /\ UNCHANGED pickVars

\* an item of the category list: the tag is removed when active, appended otherwise
CategoryItem(tag) ==
  /\ RendererBuilt
  /\ LET cats == appState.activeCategories
         updated == IF tag \in Range(cats) THEN Keep(cats, Range(cats) \ {tag})
                    ELSE Append(cats, tag)
     IN Handled(set(World, "activeCategories", updated, 1))
  /\ UNCHANGED pickVars

\* the timeline sliders: startVal and endVal in thousandths
Timeline(startVal, endVal) ==
  /\ RendererBuilt
  /\ blockMeta.maxDate > 0
  /\ LET range == <<IF startVal < endVal THEN startVal ELSE endVal,
                    IF startVal < endVal THEN endVal ELSE startVal>>
     IN Handled(set(World, "timelineRange", range, 1))
  /\ UNCHANGED pickVars

(***************************************************************************)
(* Raw documents                                                           *)
(***************************************************************************)
NodeRecs == [id : Ids, type : {"channel", "block"}]
EdgeRecs == {e \in [source : Ids, target : Ids] : e.source # e.target}

SeqsUpTo(S, n) == UNION {[1..k -> S] : k \in 0..n}

\* node lists with pairwise distinct ids, as scripts/fetch.js produces them
NodeLists == {ns \in SeqsUpTo(NodeRecs, MaxNodes) :
                \A i, j \in 1..Len(ns) : i # j => ns[i].id # ns[j].id}
EdgeLists == SeqsUpTo(EdgeRecs, MaxEdges)

SampleNodes == <<[id |-> 1, type |-> "channel"], [id |-> 3, type |-> "block"],
                 [id |-> 2, type |-> "channel"], [id |-> 4, type |-> "block"]>>

SampleEdges == <<[source |-> 1, target |-> 3], [source |-> 1, target |-> 4],
                 [source |-> 2, target |-> 4]>>

\* a graph file with a dangling edge: channel 5 is not in the node list
DanglingEdges == <<[source |-> 1, target |-> 3], [source |-> 2, target |-> 3],
                   [source |-> 1, target |-> 4], [source |-> 5, target |-> 4]>>

\* two layouts of the sample graph; like every layout the layout classes compute for
\* a graph the renderer can be built on, they place every channel and every block
LayoutA == [channelPositions |-> (1 :> <<0, 0, 0>> @@ 2 :> <<8, -8, 0>>),
            blockPositions |-> (0 :> <<8, 0, 8>> @@ 1 :> <<4, -4, 0>>)]
LayoutB == [channelPositions |-> (1 :> <<16, 0, 0>> @@ 2 :> <<0, 0, 16>>),
            blockPositions |-> (0 :> <<0, 16, 0>> @@ 1 :> <<0, 0, 0>>)]
Layouts == {LayoutA, LayoutB}

\* renderers and engine constructed on the loaded graph, as main.js does
Constructed ==
  /\ NodeInit
  /\ EdgeInit
  /\ LayoutInit
  /\ PickInit
  /\ pathQuery = NoQuery
  /\ ops = 0
  /\ raised = {}
  /\ spiralCalls = <<>>
  /\ lastLayout = <<>>
  /\ AppInit

(***************************************************************************)
(* Specification of graph loading and path queries                         *)
(***************************************************************************)
\* documents that lack a section; nodes and edges are sections of elements
PartialDocuments == {p \in SUBSET Sections :
                       /\ p # Sections
                       /\ "elements" \notin p => p \cap {"nodes", "edges"} = {}}

InitGraph ==
  /\ \/ \E es \in EdgeLists : Loaded(SampleNodes, es)
     \/ \E p \in PartialDocuments : LoadFailed(p)
  /\ Constructed

NextGraph == \E s \in Ids, e \in Ids : BfsQuery(s, e)

SpecGraph == InitGraph /\ [][NextGraph]_vars

(***************************************************************************)
(* Specification of the node attribute buffers                             *)
(***************************************************************************)
InitSample ==
  /\ Loaded(SampleNodes, SampleEdges)
  /\ Constructed

ColorInputs == {SIMILAR_COLOR}
OpacityInputs == {FullOpacity}
ScaleInputs == {HOVER_SCALE}
PositionInputs == {<<8, 0, 8>>}

Free == UNCHANGED ops

NextAttr ==
  \/ \E i \in BlockIdx, c \in ColorInputs : setBlockColor(i, c) /\ Free
  \/ \E i \in BlockIdx, o \in OpacityInputs : setBlockOpacity(i, o) /\ Free
  \/ \E i \in BlockIdx, sc \in ScaleInputs : setBlockScale(i, sc) /\ Free
  \/ commitAttributes /\ Free
  \/ resetAttributes /\ Free
  \/ \E S \in SUBSET BlockIdx : fadeAllExcept(S) /\ Free

SpecAttr == InitSample /\ [][NextAttr]_vars

(***************************************************************************)
(* Specification of buffer writes, commits and rendered frames, for        *)
(* sessions of at most MaxOps operations                                   *)
(***************************************************************************)
MaxOps == 4
Counted == ops < MaxOps /\ ops' = ops + 1

NextCommit ==
  \/ \E i \in BlockIdx, c \in ColorInputs : setBlockColor(i, c) /\ Counted
  \/ \E i \in BlockIdx, o \in OpacityInputs : setBlockOpacity(i, o) /\ Counted
  \/ \E i \in BlockIdx, sc \in ScaleInputs : setBlockScale(i, sc) /\ Counted
  \/ \E i \in BlockIdx, p \in PositionInputs : setBlockPosition(i, p) /\ Counted
  \/ commitAttributes /\ Counted
  \/ commitPositions /\ Counted
  \/ resetAttributes /\ Counted
  \/ \E S \in SUBSET BlockIdx : fadeAllExcept(S) /\ Counted
  \/ Render /\ Counted

SpecCommit == InitSample /\ [][NextCommit]_vars

(***************************************************************************)
(* Specification of the layout engine                                      *)
(***************************************************************************)
InitLayout ==
  /\ Loaded(SampleNodes, DanglingEdges)
  /\ Constructed

NextLayout ==
  \/ \E l \in Layouts : applyImmediate(l)
  \/ \E l \in Layouts, d \in Durations, cb \in BOOLEAN : animateTo(l, d, cb) /\ Free
  \/ AnimationFrame /\ Free
  \/ AdvanceTime /\ Free

SpecLayout == InitLayout /\ [][NextLayout]_vars

\* the engine's state machine under one layout; the browser keeps delivering
\* frames and the clock keeps running
NextEngine ==
  \/ applyImmediate(LayoutA)
  \/ \E d \in Durations, cb \in BOOLEAN : animateTo(LayoutA, d, cb) /\ Free
  \/ AnimationFrame /\ Free
  \/ AdvanceTime /\ Free

SpecLayoutFair ==
  InitLayout /\ [][NextEngine]_vars /\ WF_vars(AnimationFrame /\ Free) /\ WF_vars(AdvanceTime /\ Free)

(***************************************************************************)
(* Specification of the edge colour buffer, for sessions of at most MaxOps *)
(* operations, on the graph with a dangling edge                           *)
(***************************************************************************)
EdgeIndexInputs == SUBSET (0..(Len(edges) - 1))

NextEdge ==
  \/ \E S \in SUBSET BlockIdx : fadeEdgesExcept(S) /\ Counted
  \/ \E I \in EdgeIndexInputs : highlightEdges(I, PATH_COLOR) /\ Counted
  \/ resetColors /\ Counted

SpecEdge == InitLayout /\ [][NextEdge]_vars

(***************************************************************************)
(* Specification of renderer calls with indices in and out of range, for   *)
(* sessions of at most MaxOps calls                                        *)
(***************************************************************************)
BlockIndexInputs == -1..Len(blocks)
ChannelIndexInputs == -1..Len(channels)
EdgeIndexSetInputs == {{}, {0}, {-1}, {Len(edges)}, {0, Len(edges)}}

NextRange ==
  \/ \E i \in BlockIndexInputs, p \in PositionInputs : setBlockPosition(i, p) /\ Counted
  \/ \E i \in BlockIndexInputs : getBlockPosition(i) /\ Counted
  \/ \E i \in ChannelIndexInputs, p \in PositionInputs : setChannelPosition(i, p) /\ Counted
  \/ \E i \in ChannelIndexInputs : getChannelPosition(i) /\ Counted
  \/ \E i \in BlockIndexInputs, c \in ColorInputs : setBlockColor(i, c) /\ Counted
  \/ \E i \in BlockIndexInputs, o \in OpacityInputs : setBlockOpacity(i, o) /\ Counted
  \/ \E i \in BlockIndexInputs, sc \in ScaleInputs : setBlockScale(i, sc) /\ Counted
  \/ \E I \in EdgeIndexSetInputs : highlightEdges(I, PATH_COLOR) /\ Counted

SpecRange == InitSample /\ [][NextRange]_vars

(***************************************************************************)
(* Specification of index assignment: any node list, followed by the       *)
(* operations that read the graph                                          *)
(***************************************************************************)
InitIndex ==
  /\ \E ns \in NodeLists : Loaded(ns, SampleEdges)
  /\ Constructed

NextIndex ==
  \/ \E e \in Ids : BfsQuery(1, e)
  \/ applyImmediate(LayoutA)
  \/ fadeAllExcept({}) /\ Free

SpecIndex == InitIndex /\ [][NextIndex]_vars

(***************************************************************************)
(* Specification of picking                                                *)
(***************************************************************************)
PickIdSamples == (1..40) \cup (250..265) \cup (65530..65545)
                   \cup ((MaxPickId - 5)..MaxPickId)

NextPick ==
  \/ \E hit \in BlockIdx \cup {-1} : pick(hit)
  \/ \E id \in PickIdSamples : pickStored(id)
  \/ \E i \in BlockIdx : setBlockScale(i, HOVER_SCALE) /\ Free
  \/ resetAttributes /\ Free

SpecPick == InitSample /\ [][NextPick]_vars

\* picking with a render target that may fail
NextPickFail ==
  \/ \E hit \in BlockIdx \cup {-1} : pick(hit)
  \/ \E id \in PickIdSamples : pickStored(id)
  \/ LoseTarget

SpecPickFail == InitSample /\ [][NextPickFail]_vars

(***************************************************************************)
(* SpiralLayout.compute.  Positions are <<x, y, z>> in whole world units;  *)
(* square roots, sines and cosines are tabulated in thousandths.           *)
(***************************************************************************)
BLOCK_SPREAD == 18
BLOCK_BASE_RADIUS == 40
RING_GAP == 300
Y_UNDULATION_AMP == 50
RING_Y_OFFSETS == <<0, -200, 200>>
JITTER_XZ == 80
JITTER_Y == 40

\* 1000 * Math.sqrt(n) for n = 0, 1, ...
SqrtMilli == <<0, 1000, 1414, 1732, 2000, 2236, 2449, 2646, 2828>>
\* 1000 * <<cos, sin>> of idx * GOLDEN_ANGLE for idx = 0, 1, ...
GoldenDirection == << <<1000, 0>>, <<-737, 675>>, <<87, -996>>, <<608, 794>>,
                      <<-985, -174>>, <<844, -537>>, <<-260, 966>>, <<-461, -887>> >>
\* 1000 * sin(idx * Y_UNDULATION_FREQ) for idx = 0, 1, ...
UndulationMilli == <<0, 296, 565, 783, 932, 997, 974, 863>>
\* 1000 * <<cos, sin>> of 2 * PI * i / n - PI / 2: RingDirection[n][i + 1]
RingDirection == << << <<0, -1000>> >>,
                    << <<0, -1000>>, <<0, 1000>> >>,
                    << <<0, -1000>>, <<866, 500>>, <<-866, 500>> >> >>

Milli(x) == x \div 1000
SpiralRadius(n) == BLOCK_BASE_RADIUS + Milli(SqrtMilli[n + 1] * BLOCK_SPREAD)

\* channelBlockCount[ch] || 0
channelBlockCount(ch) ==
  Cardinality({i \in BlockIdx : ch \in Range(Lookup(blockToChannelsMap, blocks[i + 1]))})

outerChannels == SelectSeq(channels, LAMBDA c : c # centerChannelId)
outerRadius == SpiralRadius(IF centerChannelId = NoCenter THEN 0
                            ELSE channelBlockCount(centerChannelId)) + RING_GAP

OuterPosition(i) ==
  LET d == RingDirection[Len(outerChannels)][i + 1]
  IN <<Milli(d[1] * outerRadius),
       RING_Y_OFFSETS[2] + (IF i % 2 = 0 THEN 0 ELSE RING_Y_OFFSETS[3] - RING_Y_OFFSETS[2]),
       Milli(d[2] * outerRadius)>>

\* channel id -> position: the centre channel and the outer ring
SpiralChannelPositions ==
  [c \in {centerChannelId} \ {NoCenter} |-> <<0, RING_Y_OFFSETS[1], 0>>]
    @@ [c \in Range(outerChannels) |->
          OuterPosition((CHOOSE k \in 1..Len(outerChannels) : outerChannels[k] = c) - 1)]

\* (Math.random() - 0.5) * span lies in [-span / 2, span / 2)
JitterValues(span) == {-(span \div 2), (span \div 2) - 1}
Jitters == {<<jx, jy, jz>> : jx \in JitterValues(JITTER_XZ), jy \in JitterValues(JITTER_Y),
                             jz \in JitterValues(JITTER_XZ)}

RECURSIVE SumPositions(_, _)
SumPositions(chs, cp) ==
  IF chs = <<>> THEN Origin
  ELSE LET rest == SumPositions(Tail(chs), cp)
       IN <<cp[Head(chs)][1] + rest[1], cp[Head(chs)][2] + rest[2], cp[Head(chs)][3] + rest[3]>>

AverageUndivided(sum, count) == sum
\* if (count > 0) avg /= count
Average(sum, count) ==
  IF count > 0 THEN <<sum[1] \div count, sum[2] \div count, sum[3] \div count>> ELSE sum

\* multi-channel block: the average of the positions its channels have, plus jitter
MultiChannelPosition(chs, cp, jitter) ==
  LET placed == SelectSeq(chs, LAMBDA c : c \in DOMAIN cp)
      avg == Average(SumPositions(placed, cp), Len(placed))
  IN <<avg[1] + jitter[1], avg[2] + jitter[2], avg[3] + jitter[3]>>

\* single-channel block number idx of a channel at chPos: golden-angle spiral
SpiralSlot(chPos, idx) ==
  LET r == SpiralRadius(idx)
      d == GoldenDirection[idx + 1]
  IN <<chPos[1] + Milli(d[1] * r),
       chPos[2] + Milli(UndulationMilli[idx + 1] * Y_UNDULATION_AMP),
       chPos[3] + Milli(d[2] * r)>>

\* the loop over the block list; counters is channelBlockCounters, jit the
\* random numbers drawn for each block index
RECURSIVE PlaceBlocks(_, _, _, _, _)
PlaceBlocks(i, cp, counters, jit, placed) ==
  IF i >= Len(blocks) THEN placed
  ELSE LET chs == Lookup(blockToChannelsMap, blocks[i + 1])
       IN IF Len(chs) = 0
            THEN PlaceBlocks(i + 1, cp, counters, jit, placed @@ (i :> Origin))
          ELSE IF Len(chs) > 1
            THEN PlaceBlocks(i + 1, cp, counters, jit,
                             placed @@ (i :> MultiChannelPosition(chs, cp, jit[i])))
          ELSE IF chs[1] \notin DOMAIN cp
            THEN PlaceBlocks(i + 1, cp, counters, jit, placed @@ (i :> Origin))
          ELSE LET k == IF chs[1] \in DOMAIN counters THEN counters[chs[1]] ELSE 0
               IN PlaceBlocks(i + 1, cp, (chs[1] :> k + 1) @@ counters, jit,
                              placed @@ (i :> SpiralSlot(cp[chs[1]], k)))

SpiralCompute(jit) ==
  [channelPositions |-> SpiralChannelPositions,
   blockPositions |-> PlaceBlocks(0, SpiralChannelPositions, <<>>, jit, <<>>)]

\* spiralLayout.compute(graphData)
compute(jit) ==
  /\ loadError = "none"
  /\ spiralCalls' = <<SpiralCompute(jit)>> \o SubSeq(spiralCalls, 1, IF spiralCalls = <<>> THEN 0 ELSE 1)
  /\ UNCHANGED <<dataVars, lastLayout, appVars, raised, pathQuery, attrVars, origVars, posVars, gpuVars,
                 edgeVars, layoutVars, clockVars, pickVars, histVars>>

(***************************************************************************)
(* Specification of the spiral layout: three channels, five blocks         *)
(***************************************************************************)
SpiralNodes == <<[id |-> 1, type |-> "channel"], [id |-> 2, type |-> "channel"],
                 [id |-> 3, type |-> "channel"], [id |-> 4, type |-> "block"],
                 [id |-> 5, type |-> "block"], [id |-> 6, type |-> "block"],
                 [id |-> 7, type |-> "block"], [id |-> 8, type |-> "block"]>>

\* block 6 is in channels 1 and 2, between single-membership blocks of channel 1
SpiralEdgesCross == <<[source |-> 1, target |-> 4], [source |-> 1, target |-> 5],
                      [source |-> 1, target |-> 6], [source |-> 2, target |-> 6],
                      [source |-> 1, target |-> 7], [source |-> 3, target |-> 8]>>
\* block 6 is in all three channels, block 8 in none
SpiralEdgesOrphan == <<[source |-> 1, target |-> 4], [source |-> 2, target |-> 5],
                       [source |-> 1, target |-> 6], [source |-> 2, target |-> 6],
                       [source |-> 3, target |-> 6], [source |-> 2, target |-> 7]>>
\* a graph file with dangling edges: channel 9 is not in the node list
SpiralEdgesDangling == <<[source |-> 1, target |-> 4], [source |-> 9, target |-> 4],
                         [source |-> 1, target |-> 5], [source |-> 2, target |-> 6],
                         [source |-> 1, target |-> 6], [source |-> 9, target |-> 6],
                         [source |-> 1, target |-> 7]>>
SpiralEdgeLists == {SpiralEdgesCross, SpiralEdgesOrphan, SpiralEdgesDangling}

\* the channels' blockCount fields: absent, largest on channel 2, largest on channel 3
SpiralCounts == {NoCounts(SpiralNodes), (1 :> 1 @@ 2 :> 5 @@ 3 :> 2), (1 :> 2 @@ 2 :> 2 @@ 3 :> 4)}

InitSpiral ==
  /\ \E es \in SpiralEdgeLists, bc \in SpiralCounts : LoadedWith(SpiralNodes, es, bc)
  /\ Constructed

\* the blocks compute draws random numbers for
MultiChannelIdx == {i \in BlockIdx : Len(Lookup(blockToChannelsMap, blocks[i + 1])) > 1}

NextSpiral == \E jit \in [MultiChannelIdx -> Jitters] : compute(jit)

SpecSpiral == InitSpiral /\ [][NextSpiral]_vars

(***************************************************************************)
(* GalaxyLayout.compute and SphereLayout.compute.  A position is recorded  *)
(* as the place the code computes it for (core, arm, pole, band and the    *)
(* slot in it, with the random draw), not as coordinates.                  *)
(***************************************************************************)
MembershipOf(i) == Lookup(blockToChannelsMap, blocks[i + 1])
\* coreBlocks / poleBlocks: the multi-channel blocks, in block-list order
coreBlocks == {i \in BlockIdx : Len(MembershipOf(i)) > 1}
\* armBlocks[id]: the blocks whose only channel is id, in block-list order
armBlocks(id) == {i \in BlockIdx : MembershipOf(i) = <<id>>}
\* the number of elements of S below i: the position of i in the list
PlaceIn(S, i) == Cardinality({j \in S : j < i})

\* [...channels].sort by armBlocks[id].length descending (the sort is stable):
\* the position of channel number k of the channel list in sortedChannels
SortedPlace(k) ==
  Cardinality({j \in 1..Len(channels) :
                 \/ Cardinality(armBlocks(channels[j])) > Cardinality(armBlocks(channels[k]))
                 \/ /\ Cardinality(armBlocks(channels[j])) = Cardinality(armBlocks(channels[k]))
                    /\ j < k})

\* the blocks the arm loop reaches: those whose only channel is in the channel list
ArmPlaced == UNION {armBlocks(channels[k]) : k \in 1..Len(channels)}
Unlinked == {i \in BlockIdx : Len(MembershipOf(i)) = 0}
Draws == {"low", "high"}

GalaxyCompute(draw) ==
  [layout |-> "galaxy",
   channelPositions |->
     [c \in Range(channels) |->
        LET k == CHOOSE j \in 1..Len(channels) : channels[j] = c
        IN [at |-> "hub", slot |-> SortedPlace(k), i |-> 0,
            of |-> Cardinality(armBlocks(c)), draw |-> "none"]],
   blockPositions |->
     [i \in Unlinked \cup coreBlocks \cup ArmPlaced |->
        IF i \in Unlinked
          THEN [at |-> "origin", slot |-> 0, i |-> 0, of |-> 0, draw |-> "none"]
        ELSE IF i \in coreBlocks
          THEN [at |-> "core", slot |-> 0, i |-> PlaceIn(coreBlocks, i),
                of |-> Cardinality(coreBlocks), draw |-> "none"]
        ELSE LET k == CHOOSE j \in 1..Len(channels) : channels[j] = MembershipOf(i)[1]
             IN [at |-> "arm", slot |-> SortedPlace(k),
                 i |-> PlaceIn(armBlocks(channels[k]), i),
                 of |-> Cardinality(armBlocks(channels[k])), draw |-> draw[i]]]]

\* const halfPole = Math.ceil(poleBlocks.length / 2)
halfPole == (Cardinality(coreBlocks) + 1) \div 2

SphereCompute(draw) ==
  [layout |-> "sphere",
   channelPositions |->
     [c \in Range(channels) |->
        LET k == CHOOSE j \in 1..Len(channels) : channels[j] = c
        IN [at |-> "ring", slot |-> SortedPlace(k), i |-> 0, of |-> Len(channels),
            draw |-> "none"]],
   blockPositions |->
     [i \in Unlinked \cup coreBlocks \cup ArmPlaced |->
        IF i \in Unlinked
          THEN [at |-> "origin", slot |-> 0, i |-> 0, of |-> 0, draw |-> "none"]
        ELSE IF i \in coreBlocks
          THEN IF PlaceIn(coreBlocks, i) < halfPole
                 THEN [at |-> "north pole", slot |-> 0, i |-> PlaceIn(coreBlocks, i),
                       of |-> halfPole, draw |-> "none"]
                 ELSE [at |-> "south pole", slot |-> 0, i |-> PlaceIn(coreBlocks, i) - halfPole,
                       of |-> Cardinality(coreBlocks) - halfPole, draw |-> "none"]
        ELSE LET k == CHOOSE j \in 1..Len(channels) : channels[j] = MembershipOf(i)[1]
             IN [at |-> "band", slot |-> SortedPlace(k),
                 i |-> PlaceIn(armBlocks(channels[k]), i),
                 of |-> Cardinality(armBlocks(channels[k])), draw |-> draw[i]]]]

restOfCompute == <<dataVars, spiralCalls, appVars, raised, pathQuery, attrVars, origVars, posVars, gpuVars,
                   edgeVars, layoutVars, clockVars, pickVars, histVars>>

\* new GalaxyLayout().compute(graphData)
computeGalaxy(draw) ==
  /\ loadError = "none"
  /\ lastLayout' = GalaxyCompute(draw)
  /\ UNCHANGED restOfCompute

\* new SphereLayout().compute(graphData)
computeSphere(draw) ==
  /\ loadError = "none"
  /\ lastLayout' = SphereCompute(draw)
  /\ UNCHANGED restOfCompute

\* new SpiralLayout().compute(graphData)
computeSpiral(jit) ==
  /\ loadError = "none"
  /\ lastLayout' = [layout |-> "spiral"] @@ SpiralCompute(jit)
  /\ UNCHANGED restOfCompute

(***************************************************************************)
(* Specification of the three layout classes                               *)
(***************************************************************************)
\* a graph file in which an id that is not in the node list is the only source
\* of block 8
SpiralEdgesStray == <<[source |-> 1, target |-> 4], [source |-> 1, target |-> 5],
                      [source |-> 2, target |-> 6], [source |-> 1, target |-> 6],
                      [source |-> 9, target |-> 8]>>
CoverEdgeLists == SpiralEdgeLists \cup {SpiralEdgesStray}

InitCover ==
  /\ \E es \in CoverEdgeLists : Loaded(SpiralNodes, es)
  /\ Constructed

NextCover ==
  \/ \E draw \in [ArmPlaced -> Draws] : computeGalaxy(draw)
  \/ \E draw \in [ArmPlaced -> Draws] : computeSphere(draw)
  \/ \E jit \in [MultiChannelIdx -> Jitters] : computeSpiral(jit)

SpecCover == InitCover /\ [][NextCover]_vars

(***************************************************************************)
(* Specifications of the page: selection, modes and filters                *)
(***************************************************************************)
\* channels 1 and 2; block 3 is in both, block 4 in channel 1, block 5 in channel 2,
\* block 6 in no channel
AppNodes == <<[id |-> 1, type |-> "channel"], [id |-> 2, type |-> "channel"],
              [id |-> 3, type |-> "block"], [id |-> 4, type |-> "block"],
              [id |-> 5, type |-> "block"], [id |-> 6, type |-> "block"]>>
AppEdges == <<[source |-> 1, target |-> 3], [source |-> 2, target |-> 3],
              [source |-> 1, target |-> 4], [source |-> 2, target |-> 5]>>
AppCounts == (1 :> 2 @@ 2 :> 2)
\* what scripts/fetch.js writes for the blocks: class, autoTags and ts
AppMeta == [class |-> (3 :> "Image" @@ 4 :> "Link" @@ 5 :> "Image" @@ 6 :> "Text"),
            autoTags |-> (3 :> {"artist:a"} @@ 4 :> {"artist:a", "theme:t"} @@ 5 :> {}
                          @@ 6 :> {"theme:t"}),
            ts |-> (3 :> 10 @@ 4 :> 20 @@ 5 :> 15 @@ 6 :> 10),
            minDate |-> 10, maxDate |-> 20]
\* the same blocks, each in a channel: block 6 is in channel 2
LinkedEdges == Append(AppEdges, [source |-> 2, target |-> 6])
\* block.class || 'Unknown': block 5 has no class on are.na
UnknownMeta == [AppMeta EXCEPT !.class[5] = "Unknown"]

InitPage ==
  /\ LoadedFull(AppNodes, AppEdges, AppCounts, AppMeta)
  /\ Constructed

HitInputs == BlockIdx \cup {-1}

\* hover and select events only
NextSelect ==
  \/ \E hit \in HitInputs : MouseMove(hit) /\ Free
  \/ Click /\ Free
  \/ MouseLeave /\ Free
SpecSelect == InitPage /\ [][NextSelect]_vars

\* two blocks with tags and timestamps on the sample graph
SampleCounts == (1 :> 2 @@ 2 :> 1)
SampleMeta == [class |-> (3 :> "Image" @@ 4 :> "Link"),
               autoTags |-> (3 :> {"artist:a"} @@ 4 :> {"artist:a", "theme:t"}),
               ts |-> (3 :> 10 @@ 4 :> 20), minDate |-> 10, maxDate |-> 20]
InitModes ==
  /\ LoadedFull(SampleNodes, SampleEdges, SampleCounts, SampleMeta)
  /\ Constructed

SearchInputs == {{}, {4}}

\* the events explored after the page has loaded
MaxEvents == 4
Budgeted == ops < MaxEvents /\ ops' = ops + 1

\* the handlers of the visual modes, of the reset button and of the layout animation
NextModes ==
  \/ \E hit \in HitInputs : MouseMove(hit) /\ Budgeted
  \/ Click /\ Budgeted
  \/ MouseLeave /\ Budgeted
  \/ ResetButton /\ Budgeted
  \/ CrosslinksButton /\ Budgeted
  \/ PathButton /\ Budgeted
  \/ AgeButton /\ Budgeted
  \/ \E r \in BlockIdx : WalkButton(r) /\ Budgeted
  \/ \E r \in BlockIdx : WalkTick(r) /\ Budgeted
  \/ SimilarButton /\ Budgeted
  \/ CloseButton /\ Budgeted
  \/ \E m \in SearchInputs : Search(m) /\ Budgeted
  \/ animateTo(LayoutA, 1, TRUE) /\ Budgeted
  \/ AnimationFrame /\ Budgeted
  \/ AdvanceTime /\ Budgeted
SpecModes == InitModes /\ [][NextModes]_vars

\* the filter controls, on the graph with a block in no channel, on the graph whose
\* blocks are all in a channel, and on that graph with a block without class
FilterInputs == {<<AppEdges, AppMeta>>, <<LinkedEdges, AppMeta>>, <<LinkedEdges, UnknownMeta>>}
InitFilter ==
  /\ \E g \in FilterInputs : LoadedFull(AppNodes, g[1], AppCounts, g[2])
  /\ Constructed
TypeInputs == {"Image", "Link"}
TagInputs == {"artist:a", "theme:t"}
SliderInputs == {0, 500, 1000}
NextFilter ==
  \/ \E type \in TypeInputs : TypePill(type) /\ Free
  \/ \E ch \in Range(channels) : ChannelItem(ch) /\ Free
  \/ AllChannels /\ Free
  \/ NoChannels /\ Free
  \/ \E tag \in TagInputs : CategoryItem(tag) /\ Free
  \/ \E startVal, endVal \in SliderInputs : Timeline(startVal, endVal) /\ Free
SpecFilter == InitFilter /\ [][NextFilter]_vars

(***************************************************************************)
(* Reference definitions for the path claims: neighbourhood, reachability  *)
(* and hop distance computed from the raw edge list by set expansion.      *)
(***************************************************************************)
Nbrs(x) == {e.target : e \in {f \in Range(rawEdges) : f.source = x}}
             \cup {e.source : e \in {f \in Range(rawEdges) : f.target = x}}

RECURSIVE ReachIn(_, _)
ReachIn(s, k) ==
  IF k = 0 THEN {s}
  ELSE LET R == ReachIn(s, k - 1) IN R \cup UNION {Nbrs(x) : x \in R}

Reachable(s, e) == e \in ReachIn(s, NumIds)
Dist(s, e) == CHOOSE k \in 0..NumIds :
                e \in ReachIn(s, k) /\ \A j \in 0..(k - 1) : e \notin ReachIn(s, j)

\* C5: bfsPath(start, end) is [start] when start = end, [] when end is
\* unreachable, and otherwise a walk from start to end over adjacent nodes
\* with the minimum number of hops; the search loop runs at most once per
\* node id, also on graphs with cycles.
BfsShortestPath ==
  pathQuery # NoQuery =>
    LET s == pathQuery.start
        e == pathQuery.end
        p == pathQuery.path
    IN /\ s = e => p = <<s>>
       /\ (s # e /\ ~Reachable(s, e)) => p = <<>>
       /\ (s # e /\ Reachable(s, e)) =>
            /\ Len(p) >= 2
            /\ p[1] = s
            /\ p[Len(p)] = e
            /\ \A k \in 1..(Len(p) - 1) : p[k + 1] \in Nbrs(p[k])
            /\ Len(p) - 1 = Dist(s, e)
       /\ pathQuery.iters <= NumIds

\* a 4-node chain queried between its endpoints: 3 hops
BfsChainWitness ==
  /\ Len(pathQuery.path) = 4
  /\ Cardinality(Range(pathQuery.path)) = 4

\* C6: adjacency is symmetric: b is listed under a iff a is listed under b.
AdjacencySymmetric ==
  \A a \in Ids, b \in Ids :
    Includes(Lookup(adjacency, a), b) <=> Includes(Lookup(adjacency, b), a)

AdjacencyWitness ==
  \E a \in DOMAIN adjacency : Len(adjacency[a]) >= 2

\* C7: blockIndexMap[b] = i exactly when blocks[i].id = b, indices follow the
\* order of the block nodes in the source node list, and no operation changes
\* the block list or the index map.
PosInRaw(id) == CHOOSE k \in 1..Len(rawNodes) : rawNodes[k].id = id
BlockIndexInv ==
  /\ \A b \in Ids, i \in 0..Len(rawNodes) :
       (b \in DOMAIN blockIndexMap /\ blockIndexMap[b] = i)
         <=> (i < Len(blocks) /\ blocks[i + 1] = b)
  /\ Range(blocks) = {rawNodes[k].id : k \in {j \in 1..Len(rawNodes) :
                                                rawNodes[j].type # "channel"}}
  /\ \A i, j \in 1..Len(blocks) : i < j => PosInRaw(blocks[i]) < PosInRaw(blocks[j])
ConstructionValues ==
  [color |-> [i \in BlockIdx |-> blockColor[blocks[i + 1]]],
   opacity |-> [i \in BlockIdx |->
                  IF IsCrossLinked(blocks[i + 1]) THEN CrossOpacity ELSE SingleOpacity],
   scale |-> [i \in BlockIdx |->
                IF IsCrossLinked(blocks[i + 1]) THEN CrossScale ELSE SingleScale]]

\* C3: from every reachable buffer state and for every index set S,
\* fadeAllExcept(S) followed by resetAttributes() leaves colour, opacity and
\* scale of every block equal to the values saved at construction.
FadeThenResetRestores ==
  /\ \A S \in SUBSET BlockIdx :
       ResetBuffers(FadeBuffers(Buffers, S)) = ConstructionValues
  /\ (lastOps[1].op = "fadeAllExcept" /\ lastOps[2].op = "resetAttributes")
       => Buffers = ConstructionValues

FadeThenResetWitness ==
  /\ lastOps[1].op = "fadeAllExcept"
  /\ lastOps[1].arg = {0}
  /\ lastOps[2].op = "resetAttributes"
  /\ Buffers = ConstructionValues

\* C4 as stated: from every reachable buffer state, fadeAllExcept over the
\* full index range and resetAttributes() leave identical colour, opacity and
\* scale buffers.
FadeAllIsReset ==
  FadeBuffers(Buffers, BlockIdx) = ResetBuffers(Buffers)

\* C4 as amended: fadeAllExcept over the full index range leaves the same
\* opacity and scale buffers as resetAttributes() and leaves the colour
\* buffer as it was, so the two agree on colour exactly when every colour
\* already has its original value.
FadeAllIsResetButColor ==
  /\ FadeBuffers(Buffers, BlockIdx).opacity = ResetBuffers(Buffers).opacity
  /\ FadeBuffers(Buffers, BlockIdx).scale = ResetBuffers(Buffers).scale
  /\ FadeBuffers(Buffers, BlockIdx).color = colorAttr
  /\ (lastOps[2].op = "fadeAllExcept" /\ lastOps[2].arg = BlockIdx)
       => /\ opacityAttr = ConstructionValues.opacity
          /\ scaleAttr = ConstructionValues.scale

FadeAllWitness ==
  /\ lastOps[1].op = "setBlockOpacity"
  /\ lastOps[2].op = "fadeAllExcept"
  /\ lastOps[2].arg = BlockIdx
  /\ colorAttr # originalColors

(***************************************************************************)
(* Writes, commits and frames                                              *)
(***************************************************************************)
CpuBuffer(k) ==
  CASE k = "color" -> colorAttr
    [] k = "opacity" -> opacityAttr
    [] k = "scale" -> scaleAttr
    [] k = "matrix" -> positions

\* C2 as stated: after a frame rendered later than a setter's write, with no
\* commit since the write, the frame still shows the value it showed before.
NoEffectBeforeCommit ==
  \A k \in Kinds :
    (pendingWrite[k].active /\ pendingWrite[k].shown)
      => gpu[k][pendingWrite[k].idx] = pendingWrite[k].old

\* C2 as amended: the same, for writes made while the buffer's needsUpdate
\* flag was clear (every earlier commit had already been rendered).
NoEffectBeforeCommitWhenClean ==
  \A k \in Kinds :
    (pendingWrite[k].active /\ pendingWrite[k].shown /\ pendingWrite[k].clean)
      => gpu[k][pendingWrite[k].idx] = pendingWrite[k].old

NoEffectWitness ==
  \E k \in Kinds :
    /\ pendingWrite[k].active
    /\ pendingWrite[k].shown
    /\ pendingWrite[k].clean
    /\ CpuBuffer(k)[pendingWrite[k].idx] # gpu[k][pendingWrite[k].idx]

(***************************************************************************)
(* Layout engine                                                           *)
(***************************************************************************)
FrameRuns == lastFrameTime' # lastFrameTime
AnimateToCalled == animCount' = animCount + 1

\* C1: an animateTo call cancels the animation in flight: afterwards the only
\* pending frame callback is the new animation's, which starts from the
\* positions at the moment of the call; a step that runs always belongs to
\* the most recent animateTo call; never more than one callback is pending.
AnimateToCancels ==
  [][/\ Cardinality(rafPending') <= 1
     /\ \A c \in rafPending' : c.anim.n = animCount'
     /\ FrameRuns => (\A c \in rafPending : c.anim.n = animCount)
                        /\ lastStep'.n = lastStep'.latest
     /\ AnimateToCalled =>
          \A c \in rafPending' : /\ c.anim.startBlock = positions
                                  /\ c.anim.startChannel = channelPos]_vars

AnimateToCancelsWitness ==
  \E c \in rafPending :
    /\ c.anim.prev # {}
    /\ c.anim.startBlock \notin c.anim.prev
    /\ lastStep.n = c.anim.n
    /\ animCount = 2

LayoutStateMachine ==
  /\ ~animating
  /\ [](animating <=> rafPending # {})
  /\ []((~animating /\ animCount > 0) =>
          /\ lastStep.n = animCount
          /\ lastStep.elapsed >= lastStep.duration
          /\ lastStep.cb => (onCompleteLog # <<>> /\ Last(onCompleteLog) = animCount))
  /\ [][AnimateToCalled => animating']_vars
  /\ \A n \in 1..MaxAnims :
       (animating /\ animCount = n) ~> (~animating \/ animCount > n)

LayoutStateMachineWitness ==
  /\ ~animating
  /\ animCount = 1
  /\ onCompleteLog = <<1>>
  /\ lastStep.elapsed >= lastStep.duration

(***************************************************************************)
(* Picking                                                                 *)
(***************************************************************************)
\* C10: the stored pick id of block i is i + 1 and stays so; the pixel drawn
\* for a stored id decodes to that id, so pick() returns the instance's
\* index; the cleared pixel (0,0,0) decodes to "no hit", -1.
PickIdRoundTrip ==
  /\ pickIdAttr = [i \in BlockIdx |-> i + 1]
  /\ PickIndex(DecodePickId(ClearPixel)) = -1
  /\ pickedId = 0 => (pixelBuffer = ClearPixel /\ pickResult = -1)
  /\ pickedId > 0 => /\ DecodePickId(pixelBuffer) = pickedId
                      /\ pickResult = pickedId - 1

PickIdWitness ==
  /\ pickedId > 65536
  /\ pixelBuffer[3] > 0
  /\ pickResult = pickedId - 1

(***************************************************************************)
(* Fading                                                                  *)
(***************************************************************************)
\* C11: right after fadeAllExcept(S), every block index outside S has the
\* faded opacity and the faded scale and every index in S has the opacity and
\* scale computed at construction; with S empty every index is faded.
FadeSetsFadedState ==
  lastOps[2].op = "fadeAllExcept" =>
    \A i \in BlockIdx :
      IF i \in lastOps[2].arg
        THEN /\ opacityAttr[i] = ConstructionValues.opacity[i]
             /\ scaleAttr[i] = ConstructionValues.scale[i]
        ELSE /\ opacityAttr[i] = FADED_OPACITY
             /\ scaleAttr[i] = FadedScale

FadeSetsFadedStateWitness ==
  /\ lastOps[1].op = "setBlockOpacity"
  /\ lastOps[1].arg = {0}
  /\ lastOps[2].op = "fadeAllExcept"
  /\ lastOps[2].arg = {0}
  /\ opacityAttr[0] = SingleOpacity
  /\ opacityAttr[1] = FADED_OPACITY
  /\ scaleAttr[1] = FadedScale

(***************************************************************************)
(* Edge endpoints                                                          *)
(***************************************************************************)
\* C12: after applyImmediate and after every animation step, the two stored
\* endpoints of every edge are the current position of its source channel
\* and the current position of its target block in the node store.
EdgesFollowNodes ==
  \A k \in 1..Len(edges) :
    /\ \A i \in ChanIdx :
         channels[i + 1] = edges[k].source => positionArray[k][1] = channelPos[i]
    /\ \A i \in BlockIdx :
         blocks[i + 1] = edges[k].target => positionArray[k][2] = positions[i]

EdgesFollowNodesWitness ==
  /\ animating
  /\ lastStep.n = 1
  /\ lastStep.elapsed > 0
  /\ lastStep.elapsed < lastStep.duration
  /\ positions[0] # Origin
  /\ positions[0] # LayoutA.blockPositions[0]
  /\ positionArray[1][2] = positions[0]
  /\ positionArray[2][1] = channelPos[1]
  /\ channelPos[1] # Origin

(***************************************************************************)
(* Edge colours                                                            *)
(***************************************************************************)
\* the colour an edge has at load: the palette colour of its source channel, by the
\* channel's place in the channel list, '#666666' when the source is no channel
LoadColor(k) ==
  IF \E i \in ChanIdx : channels[i + 1] = edges[k].source
    THEN CHANNEL_PALETTE[((CHOOSE i \in ChanIdx : channels[i + 1] = edges[k].source)
                            % Len(CHANNEL_PALETTE)) + 1]
    ELSE DefaultColor

\* C13: after any sequence of fadeEdgesExcept and highlightEdges calls,
\* resetColors() leaves both vertices of every edge with the colour the edge
\* had at load, the colour of its source channel.
ResetColorsRestores ==
  lastOps[2].op = "resetColors" =>
    \A k \in 1..Len(edges) :
      /\ colorArray[k][1] = [rgb |-> LoadColor(k), dim |-> 0]
      /\ colorArray[k][2] = [rgb |-> LoadColor(k), dim |-> 0]

ResetColorsWitness ==
  /\ ops = 3
  /\ lastOps[1].op = "fadeEdgesExcept"
  /\ lastOps[1].arg = {0}
  /\ lastOps[2].op = "resetColors"
  /\ colorArray[3][2] = [rgb |-> CHANNEL_PALETTE[1], dim |-> 0]

(***************************************************************************)
(* Loading                                                                 *)
(***************************************************************************)
\* C14: loading a document that lacks meta, elements, elements.nodes or
\* elements.edges fails with a MalformedGraphError raised to the caller and
\* returns no graph model, not even a partly built one.
MissingSectionIsMalformedGraphError ==
  rawSections # Sections =>
    /\ loadError = "MalformedGraphError"
    /\ channels = <<>>
    /\ blocks = <<>>
    /\ edges = <<>>
    /\ adjacency = <<>>

\* C15: an edge that references an id absent from the node list does not stop
\* the load and is skipped: it adds nothing to the membership map, to the
\* adjacency lists or to the edge list used for rendering.
DanglingEdgeSkipped ==
  /\ rawSections = Sections => loadError = "none"
  /\ \A k \in 1..Len(rawEdges) :
       LET e == rawEdges[k]
           nodeIds == {rawNodes[i].id : i \in 1..Len(rawNodes)}
       IN (e.source \notin nodeIds \/ e.target \notin nodeIds) =>
            /\ e \notin Range(edges)
            /\ e.source \notin Range(Lookup(blockToChannelsMap, e.target))
            /\ e.target \notin Range(Lookup(adjacency, e.source))
            /\ e.source \notin Range(Lookup(adjacency, e.target))

(***************************************************************************)
(* Out-of-range indices                                                    *)
(***************************************************************************)
ValidIndices(op) ==
  CASE op \in {"setChannelPosition", "getChannelPosition"} -> ChanIdx
    [] op = "highlightEdges" -> 0..(Len(edges) - 1)
    [] OTHER -> BlockIdx

\* C16: a per-frame operation called with an out-of-range index returns
\* normally (raises nothing) and leaves the buffer entries of every valid
\* index unchanged.
OutOfRangeIsNoOp ==
  [][(lastOps' # lastOps /\ ~(lastOps'[2].arg \subseteq ValidIndices(lastOps'[2].op)))
       => /\ raised' = {}
          /\ Buffers' = Buffers
          /\ positions' = positions
          /\ channelPos' = channelPos
          /\ \A k \in 1..Len(edges) :
               (k - 1) \notin lastOps'[2].arg => colorArray'[k] = colorArray[k]]_vars

(***************************************************************************)
(* Picking failure                                                         *)
(***************************************************************************)
\* C17: once the offscreen render target cannot be used, every later pick()
\* returns -1 ("no hit"), and no pick raises.
PickDegradesToNoHit ==
  [][(~pickTargetOk /\ pickedId' # pickedId) => (pickResult' = -1 /\ raised' = {})]_vars

(***************************************************************************)
(* Block colours                                                           *)
(***************************************************************************)
\* the edges (by position in the raw edge list) through which a channel of the
\* channel list owns block b
OwningEdges(b) ==
  {k \in 1..Len(rawEdges) : rawEdges[k].target = b /\ rawEdges[k].source \in Range(channels)}
PaletteColor(ch) ==
  CHANNEL_PALETTE[((CHOOSE i \in ChanIdx : channels[i + 1] = ch) % Len(CHANNEL_PALETTE)) + 1]

\* C18: after loading, every block has the colour of its first-listed owning
\* channel, and the default colour when no channel of the channel list owns
\* it.
BlockColorFromFirstChannel ==
  \A b \in Range(blocks) :
    blockColor[b] =
      IF OwningEdges(b) = {} THEN DefaultColor
      ELSE PaletteColor(rawEdges[CHOOSE k \in OwningEdges(b) :
                                   \A j \in OwningEdges(b) : k <= j].source)

(***************************************************************************)
(* Spiral layout                                                           *)
(***************************************************************************)
\* the channels of the channel list that block b belongs to
ChannelsOf(b) == {rawEdges[k].source : k \in OwningEdges(b)}

RECURSIVE SumOver(_, _)
SumOver(S, cp) ==
  IF S = {} THEN Origin
  ELSE LET c == CHOOSE x \in S : TRUE
           rest == SumOver(S \ {c}, cp)
       IN <<cp[c][1] + rest[1], cp[c][2] + rest[2], cp[c][3] + rest[3]>>

Centroid(S, cp) ==
  LET sum == SumOver(S, cp)
      n == Cardinality(S)
  IN <<sum[1] \div n, sum[2] \div n, sum[3] \div n>>

Dist1(a, b) == IF a >= b THEN a - b ELSE b - a

\* C19: the spiral layout places every block that belongs to more than one
\* channel within the jitter bound (40 on x and z, 20 on y) of the centroid
\* of the positions of all its channels, the midpoint for two channels.
MultiChannelNearCentroid ==
  spiralCalls # <<>> =>
    \A i \in BlockIdx :
      Cardinality(ChannelsOf(blocks[i + 1])) > 1 =>
        LET c == Centroid(ChannelsOf(blocks[i + 1]), spiralCalls[1].channelPositions)
            p == spiralCalls[1].blockPositions[i]
        IN /\ Dist1(p[1], c[1]) <= 40
           /\ Dist1(p[2], c[2]) <= 20
           /\ Dist1(p[3], c[3]) <= 40

\* a block in exactly channels 1 and 2, which are apart, placed at the lowest
\* corner of the jitter box around their midpoint
MultiChannelNearCentroidWitness ==
  /\ spiralCalls # <<>>
  /\ \E i \in BlockIdx :
       LET cp == spiralCalls[1].channelPositions
           p == spiralCalls[1].blockPositions[i]
       IN /\ ChannelsOf(blocks[i + 1]) = {1, 2}
          /\ cp[1] = Origin
          /\ cp[2][3] # 0
          /\ p = <<((cp[1][1] + cp[2][1]) \div 2) - 40, ((cp[1][2] + cp[2][2]) \div 2) - 20,
                   ((cp[1][3] + cp[2][3]) \div 2) - 40>>

\* the number of single-membership blocks of channel ch before block index i
SinglesBefore(ch, i) ==
  Cardinality({j \in 0..(i - 1) : ChannelsOf(blocks[j + 1]) = {ch}})

\* C20: the spiral layout places a block with no channel at the origin and
\* the k-th single-membership block of a channel, counted in block-list
\* order over single-membership blocks only, at a position fixed by the
\* channel's position and k, so two compute calls place these blocks
\* identically.
SpiralDeterministic ==
  spiralCalls # <<>> =>
    \A i \in BlockIdx :
      LET own == ChannelsOf(blocks[i + 1])
          p == spiralCalls[1].blockPositions[i]
      IN /\ own = {} => p = Origin
         /\ \A ch \in own :
              own = {ch} =>
                p = SpiralSlot(spiralCalls[1].channelPositions[ch], SinglesBefore(ch, i))
         /\ (Cardinality(own) <= 1 /\ Len(spiralCalls) > 1) =>
              p = spiralCalls[2].blockPositions[i]

(***************************************************************************)
(* Edge fading                                                             *)
(***************************************************************************)
\* C24: fadeEdgesExcept(S) is absolute: after it every edge whose target
\* block index is in S has its load colour, and every other edge its load
\* colour dimmed exactly once, whatever the colours were before.
FadeEdgesAbsolute ==
  lastOps[2].op = "fadeEdgesExcept" =>
    \A k \in 1..Len(edges) :
      LET d == IF EdgeVisible(edges[k], lastOps[2].arg) THEN 0 ELSE 1
      IN /\ colorArray[k][1] = [rgb |-> LoadColor(k), dim |-> d]
         /\ colorArray[k][2] = [rgb |-> LoadColor(k), dim |-> d]

(***************************************************************************)
(* Completion callbacks                                                    *)
(***************************************************************************)
\* C25: onComplete is invoked at most once per animateTo call, only in the
\* step of that animation that ran with t >= 1, and never for an animation
\* that a later animateTo call superseded.
OnCompleteOnce ==
  [][onCompleteLog' # onCompleteLog =>
       /\ onCompleteLog' = Append(onCompleteLog, animCount)
       /\ animCount \notin Range(onCompleteLog)
       /\ FrameRuns
       /\ lastStep'.n = animCount
       /\ lastStep'.cb
       /\ lastStep'.elapsed >= lastStep'.duration]_vars

\* the second animateTo call superseded the first; only the second completed
OnCompleteOnceWitness ==
  /\ animCount = 2
  /\ onCompleteLog = <<2>>
  /\ ~animating
  /\ lastStep.n = 2
  /\ lastStep.elapsed >= lastStep.duration

(***************************************************************************)
(* applyImmediate during an animation                                      *)
(***************************************************************************)
\* C26: applyImmediate leaves the Idle/Animating state and the pending frame
\* callback alone (only animateTo and a delivered frame change them), and
\* the next step of the animation in flight writes positions computed from
\* the animation's own start and target, whatever applyImmediate snapped.
ApplyImmediateKeepsAnimation ==
  [][/\ (~AnimateToCalled /\ ~FrameRuns) => UNCHANGED <<animating, animCallback, rafPending>>
     /\ FrameRuns =>
          \A c \in rafPending :
            LET a == c.anim
                el == ClampT(now - a.startTime, a.duration)
            IN /\ positions' = [i \in BlockIdx |->
                                  LerpVec(a.startBlock[i], a.layout.blockPositions[i],
                                          el, a.duration)]
               /\ channelPos' = [i \in ChanIdx |->
                                   LerpVec(a.startChannel[i],
                                           a.layout.channelPositions[channels[i + 1]],
                                           el, a.duration)]]_vars

\* an animation towards LayoutA has stepped, applyImmediate(LayoutB) has then
\* snapped the positions, and the animation's next step is still pending
ApplyImmediateKeepsAnimationWitness ==
  /\ animating
  /\ lastStep.n = 1
  /\ positions = LayoutB.blockPositions
  /\ \E c \in rafPending : c.anim.n = 1 /\ c.anim.layout = LayoutA

(***************************************************************************)
(* Layout coverage                                                         *)
(***************************************************************************)
\* C27: what a layout's compute(graphData) returns has a position for every
\* block index in [0, N) and for every channel of the graph.
LayoutPlacesEveryNode ==
  lastLayout # <<>> =>
    /\ \A i \in BlockIdx : i \in DOMAIN lastLayout.blockPositions
    /\ \A c \in Range(channels) : c \in DOMAIN lastLayout.channelPositions

\* C29 (considering hover and select events only): whenever a block s is selected
\* and no block is hovered, the blocks that are not faded are exactly s and the
\* blocks sharing a channel with s
Faded(i) == opacityAttr[i] = FADED_OPACITY /\ scaleAttr[i] = FadedScale
SelectionHighlightStable ==
  (appState.selectedNodeIndex >= 0 /\ appState.hoveredNodeIndex = -1) =>
    \A i \in BlockIdx : ~Faded(i) <=> i \in neighborIndices(appState.selectedNodeIndex)

(***************************************************************************)
(* C21: the visual modes exclude each other                                *)
(***************************************************************************)
FiltersInitial ==
  /\ appState.visibleTypes = DefaultTypes
  /\ appState.visibleChannels = Range(channels)
  /\ appState.activeCategories = <<>>
  /\ appState.timelineRange = FullRange
ActiveModes ==
  {m \in {"crosslinks", "path", "age", "walk", "similar", "search", "filter", "selection"} :
     \/ m = "crosslinks" /\ appState.crosslinksActive
     \/ m = "path" /\ appState.pathMode
     \/ m = "age" /\ appState.ageHeatmapActive
     \/ m = "walk" /\ appState.walkActive
     \/ m = "similar" /\ appState.similarTarget >= 0
     \/ m = "search" /\ featureState.searchShown
     \/ m = "filter" /\ ~FiltersInitial
     \/ m = "selection" /\ (appState.hoveredNodeIndex >= 0 \/ appState.selectedNodeIndex >= 0)}
\* C21: at most one visual mode is active at a time, and no two features have
\* written the same block index in the handler that just ran
OneVisualMode ==
  /\ Cardinality(ActiveModes) <= 1
  /\ \A i \in BlockIdx : Cardinality(trace.writers[i]) <= 1

(***************************************************************************)
(* C22: mutate, then commit                                                *)
(***************************************************************************)
\* C22: when a handler that writes the node buffers has returned, its last write
\* to each buffer has been followed by a commit of that buffer
MutateThenCommit == \A k \in Kinds : ~pendingWrite[k].active
\* a handler wrote block attributes and committed them, and a layout step wrote
\* positions and committed them
MutateThenCommitWitness ==
  /\ lastOps[2].op = "commitAttributes"
  /\ \E i \in BlockIdx : trace.writers[i] # {}
  /\ lastStep # NoStep
  /\ needsUpdate["matrix"]

(***************************************************************************)
(* C23: set and batch return                                               *)
(***************************************************************************)
\* C23: every set and batch call of a handler returns after finitely many listener
\* invocations, without the nesting of set calls exhausting the call stack
DispatchTerminates == ~trace.overflow

(***************************************************************************)
(* C30: batch assigns every key, then dispatches in key order              *)
(***************************************************************************)
\* C30: each batch call dispatches one event per key, in key order, each with
\* the key's own new and old value, and every one of these events is dispatched
\* with all the keys of the batch holding their new values
BatchAssignsThenDispatches ==
  \A c \in 1..Len(trace.calls) :
    LET u == trace.calls[c].updates
        es == SelectSeq(trace.events, LAMBDA e : e.call = c)
    IN /\ Len(es) = Len(u)
       /\ \A k \in 1..Len(u) :
            /\ es[k].key = u[k][1]
            /\ es[k].value = u[k][2]
            /\ es[k].old = trace.calls[c].before[u[k][1]]
            /\ \A j \in 1..Len(u) : es[k].seen[u[j][1]] = u[j][2]
\* the reset button was pressed in path mode with a block hovered
BatchAssignsThenDispatchesWitness ==
  /\ Len(trace.calls) = 2
  /\ trace.calls[1].updates = ResetUpdates
  /\ trace.calls[1].before.pathMode
  /\ trace.calls[1].before.hoveredNodeIndex >= 0
  /\ ~appState.pathMode

(***************************************************************************)
(* C28: the filters at their initial values show every block               *)
(***************************************************************************)
\* C28: when a filter control has been used and every filter is back at its
\* initial value, _applyFilters has computed the set of all block indices and
\* every block has its original opacity and scale
InitialFiltersShowAll ==
  (FiltersInitial /\ trace.events # <<>>) =>
    /\ appState.visibleBlockIndices = BlockIdx
    /\ \A i \in BlockIdx : /\ opacityAttr[i] = originalOpacities[i]
                           /\ scaleAttr[i] = originalScales[i]

====
